---- MODULE Spec2Model ----
(***************************************************************************)
(* diff2prompt: configuration resolution, exclusion pathspec, diff         *)
(* collection and template resolution, modelled from src/src/config.ts,    *)
(* src/src/generate-prompt-from-git-diff.ts and src/src/constants.ts.      *)
(*                                                                         *)
(* A JavaScript string is a sequence of atoms.  An atom is one character   *)
(* (" ", "\n", "/", "=", "#", ...) or an indivisible run of non-blank      *)
(* characters ("a.txt", "File: ").  undefined is the absence of a key.     *)
(* A JavaScript number is a record [k, v]: finite v, or NaN.               *)
(***************************************************************************)
EXTENDS Integers, Sequences, FiniteSets, TLC

(***************************************************************************)
(* Bounds of the model                                                     *)
(***************************************************************************)
MaxFiles == 2
MainMaxFiles == 1
MaxArgs == 2
MaxPathLen == 3
MaxPatterns == 2
MaxCfgFields == 2
MaxPieces == 3
MaxDiffLen == 3
MaxLines == 2

(***************************************************************************)
(* Strings                                                                 *)
(***************************************************************************)
WS == {" ", "\n", "\t", "\r"}

RECURSIVE trimStart(_)
trimStart(s) ==
  IF s = <<>> THEN s
  ELSE IF Head(s) \in WS THEN trimStart(Tail(s)) ELSE s

RECURSIVE trimEnd(_)
trimEnd(s) ==
  IF s = <<>> THEN s
  ELSE IF s[Len(s)] \in WS THEN trimEnd(SubSeq(s, 1, Len(s) - 1)) ELSE s

trim(s) == trimEnd(trimStart(s))

startsWith(s, p) == Len(p) <= Len(s) /\ SubSeq(s, 1, Len(p)) = p

endsWith(s, p) ==
  Len(p) <= Len(s) /\ SubSeq(s, Len(s) - Len(p) + 1, Len(s)) = p

includes(s, sub) ==
  \E i \in 1..(Len(s) - Len(sub) + 1) : SubSeq(s, i, i + Len(sub) - 1) = sub

\* s.split(sep) for a one-atom separator: the pieces between separators
RECURSIVE splitAcc(_, _, _)
splitAcc(s, sep, cur) ==
  IF s = <<>> THEN <<cur>>
  ELSE IF Head(s) = sep THEN <<cur>> \o splitAcc(Tail(s), sep, <<>>)
  ELSE splitAcc(Tail(s), sep, Append(cur, Head(s)))

split(s, sep) == splitAcc(s, sep, <<>>)

RECURSIVE mapTrim(_)
mapTrim(ss) == IF ss = <<>> THEN <<>> ELSE <<trim(Head(ss))>> \o mapTrim(Tail(ss))

\* .filter(Boolean) on a list of strings: the empty string is falsy
RECURSIVE filterBoolean(_)
filterBoolean(ss) ==
  IF ss = <<>> THEN <<>>
  ELSE IF Head(ss) = <<>> THEN filterBoolean(Tail(ss))
  ELSE <<Head(ss)>> \o filterBoolean(Tail(ss))

RECURSIVE joinAll(_)
joinAll(ss) == IF ss = <<>> THEN <<>> ELSE Head(ss) \o joinAll(Tail(ss))

SeqToSet(s) == {s[i] : i \in 1..Len(s)}

(***************************************************************************)
(* Numbers                                                                 *)
(***************************************************************************)
Num(n) == [k |-> "fin", v |-> n]
NaN == [k |-> "nan", v |-> 0]
Infinity == [k |-> "inf", v |-> 0]

\* a >= b, the comparison a slip would write
jsGreater_orEqual(a, b) == a.k = "fin" /\ b.k = "fin" /\ a.v >= b.v

\* a > b on JavaScript numbers: any comparison with NaN is false
jsGreater(a, b) ==
  \/ a.k = "fin" /\ b.k = "fin" /\ a.v > b.v
  \/ a.k = "inf" /\ b.k = "fin"

\* truthiness of a number: 0 and NaN are falsy
numTruthy(x) == x.k = "inf" \/ (x.k = "fin" /\ x.v # 0)

\* Number(text): "" is 0, a decimal literal is its value, anything else NaN
Number(s) ==
  CASE s = <<>> -> Num(0)
    [] s = <<"0">> -> Num(0)
    [] s = <<"3">> -> Num(3)
    [] s = <<"5">> -> Num(5)
    [] s = <<"-1">> -> Num(0 - 1)
    [] s = <<"Infinity">> -> Infinity
    [] OTHER -> NaN

(***************************************************************************)
(* Thrown values                                                           *)
(***************************************************************************)
ErrorOf(m) == [t |-> "Error", s |-> m, n |-> 0]
ThrownString(m) == [t |-> "string", s |-> m, n |-> 0]
ThrownNumber(n) == [t |-> "number", s |-> <<>>, n |-> n]

\* e.message whatever was thrown, without the String(e) branch
errMsg_noString(e) == e.s

\* e instanceof Error ? e.message : String(e)
errMsg(e) ==
  LET \* String(value) for a thrown value that is not an Error
      String == IF e.t = "number" THEN <<ToString(e.n)>> ELSE e.s
  IN  IF e.t = "Error" THEN e.s ELSE String

(***************************************************************************)
(* Constants of the program                                                *)
(***************************************************************************)
NEW_FILES_HEADER == <<"\n", "\n", "--- New files (contents) ---", "\n">>
FILE_LABEL == <<"File: ">>
ERROR_NO_CHANGES == <<"No changes found: neither diffs nor new files.">>
DEFAULT_OUTPUT_FILENAME == <<"generated-prompt.txt">>
MAX_CONSOLE_LINES_DEFAULT == 10
MAX_NEWFILE_SIZE_BYTES == 1000000
DEFAULT_MAX_BUFFER == 52428800
GIT_CMD_ROOT == <<"git rev-parse --show-toplevel">>

tooLargeSkipped(size) == <<"<skipped: too large (", ToString(size), " bytes)>">>
binarySkipped(size) == <<"<binary content skipped (", ToString(size), " bytes)>">>
readError(msg) == <<"<read error: ">> \o msg \o <<">">>

(***************************************************************************)
(* Paths                                                                   *)
(***************************************************************************)
\* Windows drive, UNC, or POSIX absolute
isAbsolutePath(p) ==
  LET DriveAtoms == {"C:"}
  IN  \/ Len(p) >= 2 /\ p[1] \in DriveAtoms /\ p[2] \in {"\\", "/"}
      \/ startsWith(p, <<"\\", "\\">>)
      \/ startsWith(p, <<"/">>)

isAbsolutePathLike(p) == isAbsolutePath(p)

\* path.join of a directory and a simple relative path
join(dir, p) == dir \o <<"/">> \o p

(***************************************************************************)
(* Raw configuration values (the result of JSON.parse)                     *)
(***************************************************************************)
Undefined == [t |-> "undefined"]
JNull == [t |-> "null"]
JBool(b) == [t |-> "boolean", b |-> b]
JNum(x) == [t |-> "number", x |-> x]
JStr(s) == [t |-> "string", s |-> s]
JArr(items) == [t |-> "array", items |-> items]
JObj(fields) == [t |-> "object", fields |-> fields]

\* typeof value === "object" && value !== null (arrays are objects)
isRecord(value) == value.t \in {"array", "object"}

\* if (cfg): null, false, 0, NaN and "" are falsy
truthy(value) ==
  CASE value.t \in {"undefined", "null"} -> FALSE
    [] value.t = "boolean" -> value.b
    [] value.t = "number" -> numTruthy(value.x)
    [] value.t = "string" -> value.s # <<>>
    [] OTHER -> TRUE

\* obj[key]
getProp(obj, key) ==
  IF obj.t = "object" /\ key \in DOMAIN obj.fields
  THEN obj.fields[key] ELSE Undefined

pickString(obj, key) ==
  LET v == getProp(obj, key) IN IF v.t = "string" THEN v ELSE Undefined

\* any number, finite or not
pickNumber_noFinite(obj, key) ==
  LET v == getProp(obj, key) IN IF v.t = "number" THEN v ELSE Undefined

pickNumber(obj, key) ==
  LET isFinite(x) == x.k = "fin"
      v == getProp(obj, key)
  IN IF v.t = "number" /\ isFinite(v.x) THEN v ELSE Undefined

pickBoolean(obj, key) ==
  LET v == getProp(obj, key) IN IF v.t = "boolean" THEN v ELSE Undefined

pickStringArray(obj, key) ==
  LET v == getProp(obj, key)
  IN IF /\ v.t = "array"
        /\ \A i \in 1..Len(v.items) :
             v.items[i].t = "string" /\ Len(trim(v.items[i].s)) > 0
     THEN v ELSE Undefined

\* out[k] = v
Put(out, k, v) == [x \in DOMAIN out \cup {k} |-> IF x = k THEN v ELSE out[x]]

\* the empty object {}
EmptyObj == [x \in {} |-> 0]

\* a string that is set and non-blank: s && s.trim()
nonBlank(v) == v.t = "string" /\ v.s # <<>> /\ trim(v.s) # <<>>

resolvePath(baseDir, p) == IF isAbsolutePath(p) THEN p ELSE join(baseDir, p)

\* the alias outputFile preferred to outputPath
resolvedOutputPath_aliasFirst(outputPath, outputFile) ==
  IF nonBlank(outputFile) THEN outputFile ELSE outputPath

\* the value resolvedOutputPath is derived from: outputPath, or its alias
\* outputFile when outputPath is not a non-blank string
resolvedOutputPath(outputPath, outputFile) ==
  IF nonBlank(outputPath) THEN outputPath ELSE outputFile

\* Normalize a raw config value into a partial Options object
normalizeUserConfig(cfgRaw, baseDir) ==
  LET \* if (cond) out[k] = v
      set(out, cond, k, v) == IF cond THEN Put(out, k, v) ELSE out
      outputPath == pickString(cfgRaw, "outputPath")
      outputFile == pickString(cfgRaw, "outputFile")
      exclude == pickStringArray(cfgRaw, "exclude")
      excludeFile == pickString(cfgRaw, "excludeFile")
      resolved == resolvedOutputPath(outputPath, outputFile)
      maxConsoleLines == pickNumber(cfgRaw, "maxConsoleLines")
      includeUntracked == pickBoolean(cfgRaw, "includeUntracked")
      maxNewFileSizeBytes == pickNumber(cfgRaw, "maxNewFileSizeBytes")
      maxBuffer == pickNumber(cfgRaw, "maxBuffer")
      promptTemplate == pickString(cfgRaw, "promptTemplate")
      promptTemplateFile == pickString(cfgRaw, "promptTemplateFile")
      templatePreset == pickString(cfgRaw, "templatePreset")
      o1 == set(EmptyObj, nonBlank(resolved), "outputPath",
                resolvePath(baseDir, resolved.s))
      o2 == set(o1, maxConsoleLines.t = "number",
                "maxConsoleLines", maxConsoleLines.x)
      o3 == set(o2, includeUntracked.t = "boolean",
                "includeUntracked", includeUntracked.b)
      o4 == set(o3, maxNewFileSizeBytes.t = "number",
                "maxNewFileSizeBytes", maxNewFileSizeBytes.x)
      o5 == set(o4, maxBuffer.t = "number", "maxBuffer", maxBuffer.x)
      o6 == set(o5, promptTemplate.t = "string",
                "promptTemplate", promptTemplate.s)
      o7 == set(o6, nonBlank(promptTemplateFile), "promptTemplateFile",
                resolvePath(baseDir, promptTemplateFile.s))
      o8 == set(o7, templatePreset.t = "string",
                "templatePreset", templatePreset.s)
      o9 == set(o8, exclude.t = "array" /\ Len(exclude.items) > 0, "exclude",
                [i \in 1..Len(exclude.items) |-> exclude.items[i].s])
      o10 == set(o9, nonBlank(excludeFile), "excludeFile",
                 resolvePath(baseDir, excludeFile.s))
  IN  IF ~isRecord(cfgRaw) THEN EmptyObj ELSE o10

(***************************************************************************)
(* Config discovery.  A file is missing, unreadable, not JSON, or holds a  *)
(* JSON value.                                                             *)
(***************************************************************************)
FileMissing == [st |-> "missing", v |-> JNull]
FileInvalid == [st |-> "invalid", v |-> JNull]
FileJson(v) == [st |-> "json", v |-> v]

\* readFile + JSON.parse, null on any failure
readJsonIfExists(f) == IF f.st = "json" THEN f.v ELSE JNull

\* src: [envSet, env, conf, rc, pkg], the DIFF2PROMPT_CONFIG variable and the
\* files at the four locations
loadUserConfig(src, baseDir) ==
  LET c0 == readJsonIfExists(src.env)
      c1 == readJsonIfExists(src.conf)
      c2 == readJsonIfExists(src.rc)
      pkgRaw == readJsonIfExists(src.pkg)
      d2p == getProp(pkgRaw, "diff2prompt")
  IN IF src.envSet /\ truthy(c0) THEN normalizeUserConfig(c0, baseDir)
     ELSE IF truthy(c1) THEN normalizeUserConfig(c1, baseDir)
     ELSE IF truthy(c2) THEN normalizeUserConfig(c2, baseDir)
     ELSE IF isRecord(pkgRaw) /\ d2p.t # "undefined"
     THEN normalizeUserConfig(d2p, baseDir)
     ELSE EmptyObj

(***************************************************************************)
(* Options: defaults, command line, merge                                  *)
(***************************************************************************)
OptionFields ==
  {"maxConsoleLines", "outputPath", "includeUntracked", "maxNewFileSizeBytes",
   "maxBuffer", "promptTemplate", "promptTemplateFile", "templatePreset",
   "exclude", "excludeFile"}

\* envLines: the MAX_CONSOLE_LINES variable, Undefined when unset
defaultOptions(envLines) ==
  LET n == IF envLines.t = "string" THEN Number(envLines.s) ELSE NaN
  IN [maxConsoleLines |-> IF numTruthy(n) THEN n ELSE Num(MAX_CONSOLE_LINES_DEFAULT),
      outputPath |-> <<>>,
      includeUntracked |-> TRUE,
      maxNewFileSizeBytes |-> Num(MAX_NEWFILE_SIZE_BYTES),
      maxBuffer |-> Num(DEFAULT_MAX_BUFFER)]

\* a.split("=")[1] for an argument whose first atom is a flag ending in "="
splitEq1(a) == split(Tail(a), "=")[1]

\* one iteration of the loop of parseArgs; st = [out, excludes]
parseArg(st, a) ==
  LET out == st.out
      is(flag) == startsWith(a, <<flag>>)
  IN CASE is("--lines=") ->
            [st EXCEPT !.out = Put(out, "maxConsoleLines", Number(splitEq1(a)))]
       [] a = <<"--no-untracked">> ->
            [st EXCEPT !.out = Put(out, "includeUntracked", FALSE)]
       [] is("--out=") ->
            [st EXCEPT !.out = Put(out, "outputPath", splitEq1(a))]
       [] is("--max-new-size=") ->
            [st EXCEPT !.out = Put(out, "maxNewFileSizeBytes", Number(splitEq1(a)))]
       [] is("--max-buffer=") ->
            [st EXCEPT !.out = Put(out, "maxBuffer", Number(splitEq1(a)))]
       [] is("--template-file=") ->
            [st EXCEPT !.out = Put(out, "promptTemplateFile", splitEq1(a))]
       [] is("--template=") ->
            [st EXCEPT !.out = Put(out, "promptTemplate", Tail(a))]
       [] is("--template-preset=") ->
            [st EXCEPT !.out = Put(out, "templatePreset", splitEq1(a))]
       [] is("--exclude=") ->
            LET v == trim(Tail(a))
            IN IF v # <<>> THEN [st EXCEPT !.excludes = Append(@, v)] ELSE st
       [] is("--exclude-file=") ->
            [st EXCEPT !.out = Put(out, "excludeFile", splitEq1(a))]
       [] OTHER -> st

RECURSIVE parseLoop(_, _)
parseLoop(args, st) ==
  IF args = <<>> THEN st ELSE parseLoop(Tail(args), parseArg(st, Head(args)))

\* argv[0] and argv[1] are the interpreter and the script
parseArgs(argv) ==
  LET st == parseLoop(SubSeq(argv, 3, Len(argv)),
                      [out |-> EmptyObj, excludes |-> <<>>])
  IN IF Len(st.excludes) > 0 THEN Put(st.out, "exclude", st.excludes) ELSE st.out

\* { ...a, ...b }
spread(a, b) ==
  [k \in DOMAIN a \cup DOMAIN b |-> IF k \in DOMAIN b THEN b[k] ELSE a[k]]

\* the layers spread in the wrong order: { ...defaults, ...cli, ...fileCfg }
mergeLayers_fileLast(defaults, fileCfg, cli) == spread(spread(defaults, cli), fileCfg)

\* { ...defaults, ...fileCfg, ...cli }
mergeLayers(defaults, fileCfg, cli) == spread(spread(defaults, fileCfg), cli)

\* repoRoot is a string or Undefined (null)
resolveDefaultOutputPath(repoRoot, fallbackDir) ==
  join(IF repoRoot.t = "string" THEN repoRoot.s ELSE fallbackDir,
       DEFAULT_OUTPUT_FILENAME)

mergeOptions(defaults, fileCfg, cli, repoRoot, fallbackDir) ==
  LET merged == mergeLayers(defaults, fileCfg, cli)
  IN IF merged.outputPath = <<>> \/ trim(merged.outputPath) = <<>>
     THEN [merged EXCEPT !.outputPath = resolveDefaultOutputPath(repoRoot, fallbackDir)]
     ELSE merged

\* the merge written out in main(): repoRoot is a string here
mainMerge(defaults, fileCfg, cli, repoRoot, dirnameSafe) ==
  LET merged == mergeLayers(defaults, fileCfg, cli)
  IN IF merged.outputPath = <<>>
     THEN [merged EXCEPT !.outputPath =
             join(IF repoRoot # <<>> THEN repoRoot ELSE dirnameSafe,
                  DEFAULT_OUTPUT_FILENAME)]
     ELSE merged

(***************************************************************************)
(* Repository root                                                         *)
(***************************************************************************)
\* res: the outcome of exec("git rev-parse --show-toplevel"):
\* [shape, out] with shape "reject", "string", "array", "object" or "other"
getRepoRootSafe_untrimmed(res) ==
  IF res.shape = "reject" THEN JNull
  ELSE IF res.shape \in {"string", "array", "object"} /\ res.out.t = "string"
          /\ res.out.s # <<>>
  THEN res.out ELSE JNull

getRepoRootSafe(res) ==
  IF res.shape = "reject" THEN JNull
  ELSE LET stdout == IF res.shape \in {"string", "array", "object"}
                         /\ res.out.t = "string"
                      THEN res.out ELSE Undefined
           root == trim(IF stdout.t = "string" THEN stdout.s ELSE <<>>)
       IN IF root # <<>> THEN JStr(root) ELSE JNull

(***************************************************************************)
(* Templates                                                               *)
(***************************************************************************)
PresetDefault ==
  <<"I made changes to the following code.", "\n", "\n", "{{", "diff", "}}",
    "\n", "\n", "Commit message:", " ", "<type>", "\n", "PR title:", " ",
    "<type>", "\n", "Branch:", " ", "<type>">>

PresetMinimal ==
  <<"{{", "diff", "}}", "\n", "\n", "Please output:", "\n", "- Commit:">>

PresetJa == <<"ja-prompt", "\n", "\n", "ja-diff:", "\n", "{{", "diff", "}}">>

\* TEMPLATE_PRESETS[name]: an own preset text, an inherited member, or undefined
TEMPLATE_PRESETS(name) ==
  LET \* names every object inherits from Object.prototype
      InheritedNames == {<<"constructor">>, <<"toString">>}
  IN  CASE name = <<"default">> -> JStr(PresetDefault)
        [] name = <<"minimal">> -> JStr(PresetMinimal)
        [] name = <<"ja">> -> JStr(PresetJa)
        [] name \in InheritedNames -> [t |-> "function"]
        [] OTHER -> Undefined

RECURSIVE skipWS(_, _)
skipWS(s, i) == IF i <= Len(s) /\ s[i] \in WS THEN skipWS(s, i + 1) ELSE i

\* the value used as a replacement string, where $& stands for the match
bindingOf_dollarPatterns(data, k) ==
  IF k \in DOMAIN data
  THEN [i \in 1..Len(data[k]) |->
          IF data[k][i] = "$&" THEN "{{" \o k \o "}}" ELSE data[k][i]]
  ELSE <<>>

\* data[k] for every key, own or inherited
bindingOf_inherited(data, k) ==
  IF k \in DOMAIN data THEN data[k]
  ELSE IF k = "constructor" THEN <<"function Object() { [native code] }">>
  ELSE <<>>

\* Object.prototype.hasOwnProperty.call(data, k) ? data[k] : ""
bindingOf(data, k) == IF k \in DOMAIN data THEN data[k] ELSE <<>>

\* the replacement of every match of /{{\s*([a-zA-Z0-9_]+)\s*}}/g in t, from
\* index i on, in one pass from left to right
RECURSIVE renderFrom(_, _, _)
renderFrom(t, d, i) ==
  LET \* atoms that match [a-zA-Z0-9_]+
      IdentAtoms == {"diff", "now", "repoRoot", "prTemplate", "constructor", "x"}
      \* the placeholder {{\s*key\s*}} that starts at p, if any: [ok, key, last]
      placeholderAt(s, p) ==
        LET j == skipWS(s, p + 1)
            k == skipWS(s, j + 1)
        IN IF s[p] = "{{" /\ j <= Len(s) /\ s[j] \in IdentAtoms
              /\ k <= Len(s) /\ s[k] = "}}"
           THEN [ok |-> TRUE, key |-> s[j], last |-> k]
           ELSE [ok |-> FALSE, key |-> "", last |-> p]
  IN  IF i > Len(t) THEN <<>>
      ELSE LET m == placeholderAt(t, i)
           IN IF m.ok
              THEN bindingOf(d, m.key) \o renderFrom(t, d, m.last + 1)
              ELSE <<t[i]>> \o renderFrom(t, d, i + 1)

\* the result is scanned for placeholders once more
renderTemplate_twice(tpl, data) == renderFrom(renderFrom(tpl, data, 1), data, 1)

\* tpl.replace(/{{\s*([a-zA-Z0-9_]+)\s*}}/g, ...)
renderTemplate(tpl, data) == renderFrom(tpl, data, 1)

(***************************************************************************)
(* Exclusion pathspec                                                      *)
(***************************************************************************)
\* without the test for null: String(null) is read as a line
readLinesIfExists_nullAsText(txt) ==
  filterBoolean(mapTrim(split(IF txt.t = "string" THEN txt.s ELSE <<"null">>, "\n")))

\* txt: the result of readTextFileIfExists, a string or null
readLinesIfExists(txt) ==
  LET \* txt.split(/\r?\n/g): a "\r" right before a "\n" goes with it
      splitLines(s) ==
        LET pieces == split(s, "\n")
        IN [n \in 1..Len(pieces) |->
              IF n < Len(pieces) /\ pieces[n] # <<>>
                 /\ pieces[n][Len(pieces[n])] = "\r"
              THEN SubSeq(pieces[n], 1, Len(pieces[n]) - 1)
              ELSE pieces[n]]
      \* the first index of a blank run that is followed by "#" and, up to the
      \* end, by characters that "." matches; 0 if none
      RECURSIVE commentStart(_, _)
      commentStart(line, i) ==
        IF i > Len(line) THEN 0
        ELSE IF line[i] \in WS /\ skipWS(line, i) <= Len(line)
                /\ line[skipWS(line, i)] = "#"
                /\ \A n \in skipWS(line, i)..Len(line) : line[n] # "\r"
        THEN i
        ELSE commentStart(line, i + 1)
      \* s.replace(/\s+#.*$/, "").trim()
      stripLine(line) ==
        LET c == commentStart(line, 1)
        IN trim(IF c = 0 THEN line ELSE SubSeq(line, 1, c - 1))
      RECURSIVE mapStripLine(_)
      mapStripLine(ls) ==
        IF ls = <<>> THEN <<>> ELSE <<stripLine(Head(ls))>> \o mapStripLine(Tail(ls))
  IN  IF ~truthy(txt) THEN <<>>
      ELSE filterBoolean(mapStripLine(splitLines(txt.s)))

RECURSIVE toGitSlash(_)
toGitSlash(p) ==
  IF p = <<>> THEN <<>>
  ELSE <<IF Head(p) = "\\" THEN "/" ELSE Head(p)>> \o toGitSlash(Tail(p))

RECURSIVE escapeQuotes(_)
escapeQuotes(s) ==
  IF s = <<>> THEN <<>>
  ELSE (IF Head(s) = "\"" THEN <<"\\", "\"">> ELSE <<Head(s)>>)
       \o escapeQuotes(Tail(s))

shellQuote(s) == <<"\"">> \o escapeQuotes(s) \o <<"\"">>

\* insertion-ordered Set: the patterns of ps, first occurrences only
RECURSIVE dedupe(_, _)
dedupe(ps, seen) ==
  IF ps = <<>> THEN <<>>
  ELSE IF Head(ps) \in seen THEN dedupe(Tail(ps), seen)
  ELSE <<Head(ps)>> \o dedupe(Tail(ps), seen \cup {Head(ps)})

\* if (opt.excludeFile): set and not the empty string
hasExcludeFile(opt) == "excludeFile" \in DOMAIN opt /\ opt.excludeFile # <<>>

\* the path of the exclude-file that buildPathspec reads
excludeFilePath(repoRoot, opt) ==
  IF isAbsolutePathLike(opt.excludeFile) THEN opt.excludeFile
  ELSE join(repoRoot, opt.excludeFile)

buildPathspec(opt, txt) ==
  LET \* opt.exclude ?? []
      excludeOf == IF "exclude" \in DOMAIN opt THEN opt.exclude ELSE <<>>
      \* the Set of patterns; txt is the exclude-file as read (null when unread)
      patternsOf ==
        dedupe(excludeOf
               \o (IF hasExcludeFile(opt) THEN readLinesIfExists(txt) ELSE <<>>), {})
      patterns == patternsOf
  IN <<<<".">>>> \o [i \in 1..Len(patterns) |->
                       <<":(exclude)">> \o toGitSlash(patterns[i])]

RECURSIVE quoteJoin(_)
quoteJoin(ps) ==
  IF ps = <<>> THEN <<>>
  ELSE shellQuote(Head(ps))
       \o (IF Len(ps) > 1 THEN <<" ">> ELSE <<>>) \o quoteJoin(Tail(ps))

buildDiffCommands(ps) ==
  << <<"git diff -- ">> \o quoteJoin(ps),
     <<"git diff --cached -- ">> \o quoteJoin(ps) >>

buildUntrackedCommand(ps) ==
  <<"git ls-files --others --exclude-standard -- ">> \o quoteJoin(ps)

(***************************************************************************)
(* File contents                                                           *)
(***************************************************************************)
\* only the first byte is looked at
looksBinary_firstByte(buf) == Len(buf) > 0 /\ buf[1] = 0

looksBinary(buf) == \E i \in 1..Len(buf) : buf[i] = 0

toStringUtf8(buf) ==
  LET \* buf.toString("utf8") for the bytes used here (ASCII)
      decodeByte(b) ==
        CASE b = 104 -> "h" [] b = 105 -> "i" [] b = 32 -> " " [] b = 10 -> "\n"
          [] b = 0 -> "\\0" [] OTHER -> "?"
  IN  [i \in 1..Len(buf) |-> decodeByte(buf[i])]

(***************************************************************************)
(* Console preview                                                         *)
(***************************************************************************)
PREVIEW_HEADER == <<"\n", "--- Prompt (preview) ---", "\n">>
TRUNCATED_LINE == <<"... (truncated) ...">>

\* the lines printPreview sends to console.log
printPreview(prompt, maxLines) ==
  LET \* lines.slice(0, Math.max(0, maxLines)): NaN and negative counts give none
      sliceLines(ls, n) ==
        IF n.k = "inf" THEN ls
        ELSE IF n.k = "fin" /\ n.v > 0
        THEN SubSeq(ls, 1, IF n.v < Len(ls) THEN n.v ELSE Len(ls))
        ELSE <<>>
      lines == split(prompt, "\n")
  IN <<PREVIEW_HEADER>> \o sliceLines(lines, maxLines)
     \o (IF jsGreater(Num(Len(lines)), maxLines) THEN <<TRUNCATED_LINE>> ELSE <<>>)

(***************************************************************************)
(* The environment: what git, the file system and the clock answer         *)
(***************************************************************************)
Cwd == <<"/cwd">>
DirnameSafe == <<"/dist">>
Ok(out) == [ok |-> TRUE, out |-> out, err |-> Undefined]
Failed(e) == [ok |-> FALSE, out |-> <<>>, err |-> e]
StatFailed(e) == [ok |-> FALSE, out |-> 0, err |-> e]

RootResults ==
  {[shape |-> "reject", out |-> Undefined, ok |-> FALSE],
   [shape |-> "object", out |-> JStr(<<"/repo", "\n">>), ok |-> TRUE]}

GitFailures == {ErrorOf(<<"fatal: not a git repository">>), ThrownNumber(42)}

\* the listings of at most n untracked paths
RECURSIVE Listings(_)
Listings(n) ==
  LET FileNames == {<<"a.txt">>, <<"b.bin">>}
  IN  IF n = 0 THEN {<<>>}
      ELSE Listings(n - 1)
           \cup {<<f>> \o l : f \in FileNames, l \in {x \in Listings(n - 1) : Len(x) = n - 1}}

\* what the listing command answers; in the second of two consecutive runs
\* the destination file of the first run may be listed after the other paths
ListResults(r) ==
  LET \* one path per line
      listingText(l) == joinAll([i \in 1..Len(l) |-> l[i] \o <<"\n">>])
      DestNames == {DEFAULT_OUTPUT_FILENAME, <<"OUT.txt">>}
      base ==
        {Ok(listingText(l)) :
           l \in Listings(IF r = "collectDiff" THEN MaxFiles ELSE MainMaxFiles)}
        \cup {Ok(<<" ", "\n", "\n">>), Failed(ErrorOf(<<"fatal: ls-files">>))}
  IN  IF r = "rerun"
      THEN base \cup {Ok(b.out \o n \o <<"\n">>) : b \in {x \in base : x.ok}, n \in DestNames}
      ELSE base

\* what stat answers; the runs of main see fewer answers than the calls of
\* collectDiff
StatResults(r) ==
  LET FileSizes == {5, 6}
  IN  IF r # "collectDiff"
      THEN {Ok(5), Ok(MAX_NEWFILE_SIZE_BYTES + 1), StatFailed(ErrorOf(<<"ENOENT">>))}
      ELSE {Ok(n) : n \in FileSizes}
           \cup {StatFailed(ThrownString(<<"BOOM_STRING_ERROR">>))}

\* what readFile answers
ReadResults(r) ==
  LET Buffers == {<<104, 105>>, <<1, 0, 2>>}
  IN  IF r # "collectDiff"
      THEN {Ok(<<104, 105>>), Failed(ErrorOf(<<"Permission denied">>))}
      ELSE {Ok(b) : b \in Buffers}
           \cup {Failed(ErrorOf(<<"Permission denied">>)), Failed(ThrownNumber(7))}

\* readTextFileIfExists of the exclude-file: null when it cannot be read
ExcludeFileReads == {JNull, JStr(<<"logs", "\n", "dist", " ", "#", "x", "\n">>)}

(***************************************************************************)
(* State                                                                   *)
(***************************************************************************)
VARIABLES
  pc,            \* position in main() / collectDiff()
  run,           \* what was called: "main", "collectDiff", or "rerun" (main twice)
  repoRoot,      \* main: repoRoot
  fileCfg,       \* main: fileCfg
  cli,           \* main: cli
  merged,        \* main: merged; collectDiff: opt
  cdRoot,        \* collectDiff: repoRoot
  ps1,           \* the pathspec built by buildDiffCommands
  ps2,           \* the pathspec built by buildUntrackedCommand
  unstaged,      \* collectDiff: unstaged
  full,          \* collectDiff: full
  files,         \* collectDiff: files
  idx,           \* index in files of the loop's current file
  stSize,        \* st.size of the current file
  templateText,  \* main: templateText
  prompt,        \* main: prompt
  thrown,        \* the value thrown, once something threw
  stderr,        \* lines given to console.error
  stdout,        \* lines given to console.log
  exitCode,      \* -1 while running
  written,       \* files written: [path, data]
  ops,           \* the external operations issued so far
  fn,            \* the function applied, when a function is checked on its own
  arg,           \* its input
  res            \* its result

mainVars ==
  <<pc, run, repoRoot, fileCfg, cli, merged, cdRoot, ps1, ps2, unstaged,
    full, files, idx, stSize, templateText, prompt, thrown, stderr, stdout,
    exitCode, written, ops>>

fnVars == <<fn, arg, res>>

vars ==
  <<pc, run, repoRoot, fileCfg, cli, merged, cdRoot, ps1, ps2, unstaged,
    full, files, idx, stSize, templateText, prompt, thrown, stderr, stdout,
    exitCode, written, ops, fn, arg, res>>

\* an operation, its argument and what it answered
Op(op, a, r) == [op |-> op, arg |-> a, r |-> r]

\* everything but pc, run and merged, as it is before anything ran
Blank ==
  /\ repoRoot = <<>> /\ fileCfg = EmptyObj /\ cli = EmptyObj
  /\ cdRoot = <<>> /\ ps1 = <<>> /\ ps2 = <<>> /\ unstaged = <<>>
  /\ full = <<>> /\ files = <<>> /\ idx = 0 /\ stSize = 0
  /\ templateText = Undefined /\ prompt = <<>> /\ thrown = Undefined
  /\ stderr = <<>> /\ stdout = <<>> /\ exitCode = 0 - 1
  /\ written = <<>> /\ ops = <<>>

(***************************************************************************)
(* collectDiff(opt), one action per awaited operation                      *)
(***************************************************************************)
\* the failure is dropped and collectDiff returns what it has
Reject_returnPartial(e) == pc' = "cdReturned" /\ thrown' = thrown

\* collectDiff rejects with e
Reject(e) == pc' = "cdRejected" /\ thrown' = e

\* the end of collectDiff when untracked files are included
Finish(f) ==
  IF trim(f) = <<>>
  THEN Reject(ErrorOf(ERROR_NO_CHANGES))
  ELSE pc' = "cdReturned" /\ thrown' = thrown

\* the loop steps over a file
NextFile_skip(f) ==
  /\ full' = f
  /\ idx' = idx + 2
  /\ IF idx + 1 < Len(files) THEN pc' = "cdStat" /\ thrown' = thrown ELSE Finish(f)

\* the loop goes on with the next file, or ends
NextFile(f) ==
  /\ full' = f
  /\ idx' = idx + 1
  /\ IF idx < Len(files) THEN pc' = "cdStat" /\ thrown' = thrown ELSE Finish(f)

fileEntry(file, body) == <<"\n">> \o FILE_LABEL \o file \o <<"\n">> \o body \o <<"\n">>

\* the loop without its catch: the failure of the file ends collectDiff
CatchFile_rethrow(e) == Reject(e) /\ UNCHANGED <<full, idx>>

\* catch (e) in the loop: the marker of this file, and the loop goes on
CatchFile(e) == NextFile(full \o fileEntry(files[idx], readError(errMsg(e))))

\* root ?? process.cwd()
rootOrCwd(root) == IF root.t = "string" THEN root.s ELSE Cwd

\* const repoRoot = (await getRepoRootSafe()) ?? process.cwd()
CdRoot ==
  /\ pc = "cdRoot"
  /\ \E r \in RootResults :
       /\ cdRoot' = rootOrCwd(getRepoRootSafe(r))
       /\ ops' = Append(ops, Op("exec", GIT_CMD_ROOT, r))
  /\ pc' = "cdDiffCmds"
  /\ UNCHANGED <<run, repoRoot, fileCfg, cli, merged, ps1, ps2, unstaged,
                 full, files, idx, stSize, templateText, prompt, thrown, stderr,
                 stdout, exitCode, written>>
  /\ UNCHANGED fnVars

\* const [diffCmd, diffCachedCmd] = await buildDiffCommands(repoRoot, opt)
CdBuildDiffCommands ==
  /\ pc = "cdDiffCmds"
  /\ IF hasExcludeFile(merged)
     THEN \E txt \in ExcludeFileReads :
            /\ ps1' = buildPathspec(merged, txt)
            /\ ops' = Append(ops, Op("readFileUtf8", excludeFilePath(cdRoot, merged), txt))
     ELSE ps1' = buildPathspec(merged, JNull) /\ ops' = ops
  /\ pc' = "cdUnstaged"
  /\ UNCHANGED <<run, repoRoot, fileCfg, cli, merged, cdRoot, ps2, unstaged,
                 full, files, idx, stSize, templateText, prompt, thrown, stderr,
                 stdout, exitCode, written>>
  /\ UNCHANGED fnVars

\* const unstaged = await runGit(diffCmd, opt)
CdUnstaged ==
  LET UnstagedResults ==
        {Ok(<<>>), Ok(<<"diff --git a/x b/x", "\n">>)} \cup {Failed(e) : e \in GitFailures}
  IN  /\ pc = "cdUnstaged"
      /\ \E r \in UnstagedResults :
           /\ ops' = Append(ops, Op("exec", buildDiffCommands(ps1)[1], r))
           /\ IF r.ok
              THEN unstaged' = r.out /\ pc' = "cdStaged" /\ thrown' = thrown
              ELSE unstaged' = unstaged /\ Reject(r.err)
      /\ UNCHANGED <<run, repoRoot, fileCfg, cli, merged, cdRoot, ps1, ps2,
                     full, files, idx, stSize, templateText, prompt, stderr,
                     stdout, exitCode, written>>
      /\ UNCHANGED fnVars

\* the staged text put first
diffText_stagedFirst(u, s) == trim(s \o u)

\* let full = (unstaged + staged).trim()
diffText(u, s) == trim(u \o s)

\* const staged = await runGit(diffCachedCmd, opt);
\* let full = (unstaged + staged).trim(); without untracked files, return full
CdStaged ==
  LET StagedResults ==
        {Ok(<<>>), Ok(<<" ", "\n">>), Ok(<<"diff --git a/y b/y", "\n">>)}
        \cup {Failed(ThrownString(<<"STRINGY_FAIL">>))}
  IN  /\ pc = "cdStaged"
      /\ \E r \in StagedResults :
           /\ ops' = Append(ops, Op("exec", buildDiffCommands(ps1)[2], r))
           /\ IF r.ok
              THEN /\ full' = diffText(unstaged, r.out)
                   /\ pc' = IF merged.includeUntracked THEN "cdUntrackedCmd" ELSE "cdReturned"
                   /\ thrown' = thrown
              ELSE full' = full /\ Reject(r.err)
      /\ UNCHANGED <<run, repoRoot, fileCfg, cli, merged, cdRoot, ps1, ps2,
                     unstaged, files, idx, stSize, templateText, prompt, stderr,
                     stdout, exitCode, written>>
      /\ UNCHANGED fnVars

\* const untrackedCmd = await buildUntrackedCommand(repoRoot, opt)
CdBuildUntrackedCommand ==
  /\ pc = "cdUntrackedCmd"
  /\ IF hasExcludeFile(merged)
     THEN \E txt \in ExcludeFileReads :
            /\ ps2' = buildPathspec(merged, txt)
            /\ ops' = Append(ops, Op("readFileUtf8", excludeFilePath(cdRoot, merged), txt))
     ELSE ps2' = buildPathspec(merged, JNull) /\ ops' = ops
  /\ pc' = "cdList"
  /\ UNCHANGED <<run, repoRoot, fileCfg, cli, merged, cdRoot, ps1, unstaged,
                 full, files, idx, stSize, templateText, prompt, thrown, stderr,
                 stdout, exitCode, written>>
  /\ UNCHANGED fnVars

\* const filesStdout = await runGit(untrackedCmd, opt); the header is added
\* when files are listed, and the loop starts
CdList ==
  /\ pc = "cdList"
  /\ \E r \in ListResults(run) :
       /\ ops' = Append(ops, Op("exec", buildUntrackedCommand(ps2), r))
       /\ IF r.ok
          THEN LET fs == filterBoolean(mapTrim(split(r.out, "\n")))
               IN /\ files' = fs
                  /\ IF Len(fs) > 0
                     THEN /\ full' = full \o NEW_FILES_HEADER
                          /\ idx' = 1
                          /\ pc' = "cdStat"
                          /\ thrown' = thrown
                     ELSE full' = full /\ idx' = idx /\ Finish(full)
          ELSE files' = files /\ full' = full /\ idx' = idx /\ Reject(r.err)
  /\ UNCHANGED <<run, repoRoot, fileCfg, cli, merged, cdRoot, ps1, ps2,
                 unstaged, stSize, templateText, prompt, stderr, stdout,
                 exitCode, written>>
  /\ UNCHANGED fnVars

\* const st = await stat(file), the size test, and the catch of this file
CdStat ==
  /\ pc = "cdStat"
  /\ \E r \in StatResults(run) :
       /\ ops' = Append(ops, Op("stat", files[idx], r))
       /\ IF r.ok
          THEN IF jsGreater(Num(r.out), merged.maxNewFileSizeBytes)
               THEN /\ NextFile(full \o fileEntry(files[idx], tooLargeSkipped(r.out)))
                    /\ stSize' = r.out
               ELSE /\ stSize' = r.out
                    /\ pc' = "cdRead"
                    /\ UNCHANGED <<full, idx, thrown>>
          ELSE CatchFile(r.err) /\ stSize' = stSize
  /\ UNCHANGED <<run, repoRoot, fileCfg, cli, merged, cdRoot, ps1, ps2,
                 unstaged, files, templateText, prompt, stderr, stdout,
                 exitCode, written>>
  /\ UNCHANGED fnVars

\* const buf = await readFile(file), the binary test, and the catch of this file
CdRead ==
  /\ pc = "cdRead"
  /\ \E r \in ReadResults(run) :
       /\ ops' = Append(ops, Op("readFile", files[idx], r))
       /\ IF r.ok
          THEN IF looksBinary(r.out)
               THEN NextFile(full \o fileEntry(files[idx], binarySkipped(stSize)))
               ELSE NextFile(full \o fileEntry(files[idx], toStringUtf8(r.out)))
          ELSE CatchFile(r.err)
  /\ UNCHANGED <<run, repoRoot, fileCfg, cli, merged, cdRoot, ps1, ps2,
                 unstaged, files, stSize, templateText, prompt, stderr, stdout,
                 exitCode, written>>
  /\ UNCHANGED fnVars

CollectNext ==
  \/ CdRoot
  \/ CdBuildDiffCommands
  \/ CdUnstaged
  \/ CdStaged
  \/ CdBuildUntrackedCommand
  \/ CdList
  \/ CdStat
  \/ CdRead

(***************************************************************************)
(* main(), one action per awaited operation                                *)
(***************************************************************************)
Argv(args) == << <<"node">>, <<"script">> >> \o args

\* the MAX_CONSOLE_LINES variable
EnvLines == {Undefined, JStr(<<"5">>)}

\* the try block threw e
Throw(e) == pc' = "threw" /\ thrown' = e

\* if (!templateText || templateText.length === 0) use preset or default
orPreset(text, opt) ==
  LET \* 3) the preset, if TEMPLATE_PRESETS has a truthy member of that name, or
      \* 4) the default preset
      presetOrDefault ==
        IF /\ "templatePreset" \in DOMAIN opt
           /\ opt.templatePreset # <<>>
           /\ truthy(TEMPLATE_PRESETS(opt.templatePreset))
        THEN TEMPLATE_PRESETS(opt.templatePreset)
        ELSE TEMPLATE_PRESETS(<<"default">>)
  IN  IF text.t = "string" /\ text.s # <<>> THEN text ELSE presetOrDefault

\* const repoRoot = (await getRepoRootSafe()) ?? process.cwd()
GetRepoRoot ==
  /\ pc = "start"
  /\ \E r \in RootResults :
       /\ repoRoot' = rootOrCwd(getRepoRootSafe(r))
       /\ ops' = Append(ops, Op("exec", GIT_CMD_ROOT, r))
  /\ pc' = "loadConfig"
  /\ UNCHANGED <<run, fileCfg, cli, merged, cdRoot, ps1, ps2, unstaged,
                 full, files, idx, stSize, templateText, prompt, thrown, stderr,
                 stdout, exitCode, written>>
  /\ UNCHANGED fnVars

\* const fileCfg = await loadUserConfig(repoRoot); const cli = parseArgs(argv);
\* the merge and the default output path
LoadConfig ==
  LET NoSources ==
        [envSet |-> FALSE, env |-> FileMissing, conf |-> FileMissing,
         rc |-> FileMissing, pkg |-> FileMissing]
      \* the configuration sources of the runs of main
      MainSources ==
        {NoSources,
         [NoSources EXCEPT !.conf =
            FileJson(JObj([exclude |-> JArr(<<JStr(<<"build">>)>>),
                           promptTemplate |-> JStr(<<"CFG", " ", "{{", "repoRoot", "}}">>)]))],
         [NoSources EXCEPT !.pkg =
            FileJson(JObj([diff2prompt |->
              JObj([promptTemplateFile |-> JStr(<<"tpl.md">>),
                    templatePreset |-> JStr(<<"minimal">>),
                    maxNewFileSizeBytes |-> JNum(Num(5))])]))]}
      \* the command lines of the runs of main
      MainArgvs ==
        {Argv(<<>>),
         Argv(<< <<"--no-untracked">> >>),
         Argv(<< <<"--exclude=", "dist">>, <<"--exclude-file=", "ex.txt">> >>),
         Argv(<< <<"--exclude-file=", ".missing.txt">> >>),
         Argv(<< <<"--template=", " ">>, <<"--template-file=", "t.md">> >>),
         Argv(<< <<"--template=", "INLINE", " ", "{{", "diff", "}}", " ">>,
                 <<"--template-file=", "t.md">> >>),
         Argv(<< <<"--template-preset=", "ja">>, <<"--lines=", "3">> >>),
         Argv(<< <<"--template-preset=", "constructor">>, <<"--out=", "OUT.txt">> >>),
         Argv(<< <<"--template-preset=", "nope">>, <<"--max-new-size=", "abc">> >>)}
  IN  /\ pc = "loadConfig"
      /\ \E src \in MainSources, argv \in MainArgvs, envLines \in EnvLines :
           LET f == loadUserConfig(src, repoRoot)
               c == parseArgs(argv)
           IN /\ fileCfg' = f
              /\ cli' = c
              /\ merged' = mainMerge(defaultOptions(envLines), f, c, repoRoot, DirnameSafe)
      /\ pc' = "checkRepo"
      /\ UNCHANGED <<run, repoRoot, cdRoot, ps1, ps2, unstaged, full, files,
                     idx, stSize, templateText, prompt, thrown, stderr, stdout,
                     exitCode, written, ops>>
      /\ UNCHANGED fnVars

\* await runGit(GIT_CMD_ROOT, merged)
CheckRepo ==
  LET CheckResults == {Ok(<<"/repo", "\n">>)} \cup {Failed(e) : e \in GitFailures}
  IN  /\ pc = "checkRepo"
      /\ \E r \in CheckResults :
           /\ ops' = Append(ops, Op("exec", GIT_CMD_ROOT, r))
           /\ IF r.ok THEN pc' = "cdRoot" /\ thrown' = thrown ELSE Throw(r.err)
      /\ UNCHANGED <<run, repoRoot, fileCfg, cli, merged, cdRoot, ps1, ps2,
                     unstaged, full, files, idx, stSize, templateText, prompt,
                     stderr, stdout, exitCode, written>>
      /\ UNCHANGED fnVars

inlineTemplateText_verbatim(t) == t

\* templateText = merged.promptTemplate.trim()
inlineTemplateText(t) == trim(t)

\* 1) the inline template, 2) the template file, else preset or default
ResolveTemplate ==
  /\ pc = "cdReturned"
  /\ IF /\ "promptTemplate" \in DOMAIN merged
        /\ merged.promptTemplate # <<>>
        /\ trim(merged.promptTemplate) # <<>>
     THEN /\ templateText' = JStr(inlineTemplateText(merged.promptTemplate))
          /\ pc' = "render"
     ELSE IF "promptTemplateFile" \in DOMAIN merged /\ merged.promptTemplateFile # <<>>
     THEN templateText' = Undefined /\ pc' = "readTemplate"
     ELSE templateText' = orPreset(Undefined, merged) /\ pc' = "render"
  /\ UNCHANGED <<run, repoRoot, fileCfg, cli, merged, cdRoot, ps1, ps2,
                 unstaged, full, files, idx, stSize, prompt, thrown, stderr,
                 stdout, exitCode, written, ops>>
  /\ UNCHANGED fnVars

\* const txt = await readTextFileIfExists(merged.promptTemplateFile);
\* templateText = txt?.trim(), else preset or default
ReadTemplate ==
  LET \* readTextFileIfExists of the template file
      TemplateFileReads ==
        {JNull, JStr(<<" ", "\n">>), JStr(<<"FILE", " ", "{{", "diff", "}}", "\n">>)}
  IN  /\ pc = "readTemplate"
      /\ \E txt \in TemplateFileReads :
           /\ ops' = Append(ops, Op("readFileUtf8", merged.promptTemplateFile, txt))
           /\ templateText' =
                orPreset(IF txt.t = "string" THEN JStr(trim(txt.s)) ELSE Undefined, merged)
      /\ pc' = "render"
      /\ UNCHANGED <<run, repoRoot, fileCfg, cli, merged, cdRoot, ps1, ps2,
                     unstaged, full, files, idx, stSize, prompt, thrown, stderr,
                     stdout, exitCode, written>>
      /\ UNCHANGED fnVars

\* renderTemplate and printPreview; a template that is not a string has no
\* replace method and the call throws a TypeError
Render ==
  LET NowIso == <<"2026-01-01T00:00:00.000Z">>
  IN  /\ pc = "render"
      /\ IF templateText.t = "string"
         THEN LET p == renderTemplate(templateText.s,
                         [diff |-> full, now |-> NowIso, repoRoot |-> repoRoot])
              IN /\ prompt' = p
                 /\ stdout' = stdout \o printPreview(p, merged.maxConsoleLines)
                 /\ pc' = "write"
                 /\ thrown' = thrown
         ELSE /\ Throw(ErrorOf(<<"tpl.replace is not a function">>))
              /\ UNCHANGED <<prompt, stdout>>
      /\ UNCHANGED <<run, repoRoot, fileCfg, cli, merged, cdRoot, ps1, ps2,
                     unstaged, full, files, idx, stSize, templateText, stderr,
                     exitCode, written, ops>>
      /\ UNCHANGED fnVars

\* await writeFile(merged.outputPath, prompt, "utf8") and the closing line
Write ==
  LET WriteResults == {Ok(<<>>), Failed(ErrorOf(<<"EACCES">>))}
  IN  /\ pc = "write"
      /\ \E r \in WriteResults :
           /\ ops' = Append(ops, Op("writeFile", merged.outputPath, r))
           /\ IF r.ok
              THEN /\ written' = Append(written, [path |-> merged.outputPath, data |-> prompt])
                   /\ stdout' = Append(stdout, <<"\n", "Prompt written to: ">> \o merged.outputPath)
                   /\ exitCode' = 0
                   /\ pc' = "done"
                   /\ thrown' = thrown
              ELSE Throw(r.err) /\ UNCHANGED <<written, stdout, exitCode>>
      /\ UNCHANGED <<run, repoRoot, fileCfg, cli, merged, cdRoot, ps1, ps2,
                     unstaged, full, files, idx, stSize, templateText, prompt,
                     stderr>>
      /\ UNCHANGED fnVars

\* catch (err): one line on stderr and process.exit(1)
Catch ==
  /\ pc \in {"threw", "cdRejected"}
  /\ stderr' = Append(stderr, <<"Error: ">> \o errMsg(thrown))
  /\ exitCode' = 1
  /\ pc' = "exited"
  /\ UNCHANGED <<run, repoRoot, fileCfg, cli, merged, cdRoot, ps1, ps2,
                 unstaged, full, files, idx, stSize, templateText, prompt,
                 thrown, stdout, written, ops>>
  /\ UNCHANGED fnVars

(***************************************************************************)
(* Spec: a run of main().  SpecCollect: a call of collectDiff(opt).        *)
(***************************************************************************)
Init == pc = "start" /\ run = "main" /\ merged = EmptyObj /\ Blank /\ fn = "none" /\ arg = <<>> /\ res = <<>>

Next ==
  \/ GetRepoRoot
  \/ LoadConfig
  \/ CheckRepo
  \/ CdRoot
  \/ CdBuildDiffCommands
  \/ CdUnstaged
  \/ CdStaged
  \/ CdBuildUntrackedCommand
  \/ CdList
  \/ CdStat
  \/ CdRead
  \/ ResolveTemplate
  \/ ReadTemplate
  \/ Render
  \/ Write
  \/ Catch

Spec == Init /\ [][Next]_vars

InitCollect ==
  LET \* the options collectDiff is called with
      CollectOptions ==
        {spread(defaultOptions(Undefined), o) :
           o \in {spread(spread(a, b), c) :
                    a \in {EmptyObj, [includeUntracked |-> FALSE]},
                    b \in {EmptyObj, [maxNewFileSizeBytes |-> Num(5)],
                           [maxNewFileSizeBytes |-> NaN]},
                    c \in {EmptyObj,
                           [exclude |-> << <<"dist">> >>, excludeFile |-> <<"ex.txt">>]}}}
  IN  /\ pc = "cdRoot" /\ run = "collectDiff" /\ merged \in CollectOptions
      /\ Blank /\ fn = "none" /\ arg = <<>> /\ res = <<>>

SpecCollect == InitCollect /\ [][CollectNext]_vars

(***************************************************************************)
(* Diff collection: the no-changes condition                               *)
(***************************************************************************)
\* C1: collectDiff never returns an empty or whitespace-only payload: when
\* the assembled payload is empty after trimming, it fails with
\* ERROR_NO_CHANGES instead of returning, whatever includeUntracked is.
C1_NeverReturnsEmptyPayload ==
  /\ pc = "cdReturned" => trim(full) # <<>>
  /\ (pc = "cdRejected" /\ ops[Len(ops)].r.ok) => thrown = ErrorOf(ERROR_NO_CHANGES)

(***************************************************************************)
(* main: template precedence, fatal failures, the exclude sources          *)
(***************************************************************************)
\* C3: the template main renders is the inline template if it is non-blank,
\* else the content of the template file if a path is set, the read succeeds
\* and the content is non-blank, else the named preset if the name is one of
\* default, minimal, ja, else the default preset.
C3_TemplatePrecedence ==
  pc = "render" =>
    LET inline == IF "promptTemplate" \in DOMAIN merged
                  THEN merged.promptTemplate ELSE <<>>
        hasFile == "promptTemplateFile" \in DOMAIN merged
                   /\ merged.promptTemplateFile # <<>>
        last == ops[Len(ops)]
        fileText == IF trim(inline) = <<>> /\ hasFile /\ last.op = "readFileUtf8"
                       /\ last.r.t = "string"
                    THEN trim(last.r.s) ELSE <<>>
        name == IF "templatePreset" \in DOMAIN merged
                THEN merged.templatePreset ELSE <<>>
        expected == IF trim(inline) # <<>> THEN trim(inline)
                    ELSE IF fileText # <<>> THEN fileText
                    ELSE IF name = <<"minimal">> THEN PresetMinimal
                    ELSE IF name = <<"ja">> THEN PresetJa
                    ELSE PresetDefault
    IN templateText.t = "string" /\ templateText.s = expected

\* C4: when the repository check fails, a diff or listing query fails, or the
\* no-changes condition is raised, main prints the one line "Error: <message>"
\* (String(value) for a value that is not an Error), exits with code 1, and
\* writeFile is never called.
C4_FatalFailureOneLineNoWrite ==
  LET last == ops[Len(ops)]
      failed == pc \in {"threw", "cdRejected", "exited"}
      queryFailed == failed /\ last.op = "exec" /\ ~last.r.ok
      noChanges == failed /\ thrown.t = "Error" /\ thrown.s = ERROR_NO_CHANGES
      msg == IF thrown.t = "Error" THEN thrown.s
             ELSE IF thrown.t = "number" THEN <<ToString(thrown.n)>>
             ELSE thrown.s
  IN (queryFailed \/ noChanges) =>
       /\ queryFailed => thrown = last.r.err
       /\ \A j \in 1..Len(ops) : ops[j].op # "writeFile"
       /\ written = <<>>
       /\ pc = "exited" => stderr = << <<"Error: ">> \o msg >> /\ exitCode = 1

\* a query rejected with a value that is not an Error, and main has exited
C4_Witness ==
  /\ pc = "exited"
  /\ thrown = ThrownNumber(42)
  /\ stderr = << <<"Error: ", "42">> >>
  /\ Len(ops) > 2

\* C7: the exclude patterns applied in a run are the union of the --exclude
\* flags, the exclude array of the config file and the lines of the
\* exclude-file.
C7_ExcludeUnionOfThreeSources ==
  pc = "cdUnstaged" =>
    LET last == ops[Len(ops)]
        fileLines == IF hasExcludeFile(merged)
                     THEN readLinesIfExists(last.r) ELSE <<>>
        applied == {Tail(ps1[i]) : i \in 2..Len(ps1)}
        cliEx == IF "exclude" \in DOMAIN cli THEN SeqToSet(cli.exclude) ELSE {}
        cfgEx == IF "exclude" \in DOMAIN fileCfg
                 THEN SeqToSet(fileCfg.exclude) ELSE {}
    IN applied = cliEx \cup cfgEx \cup SeqToSet(fileLines)

\* C14: for every templatePreset that is not default, minimal or ja (unset,
\* or any other string, also the name of an inherited member such as
\* constructor), without an inline template and without a usable template
\* file, main renders the built-in default preset and the rendering does not
\* fail.
C14_UnknownPresetRendersDefault ==
  LET name == IF "templatePreset" \in DOMAIN merged
              THEN merged.templatePreset ELSE <<>>
      inline == IF "promptTemplate" \in DOMAIN merged
                THEN merged.promptTemplate ELSE <<>>
      hasFile == "promptTemplateFile" \in DOMAIN merged
                 /\ merged.promptTemplateFile # <<>>
      reads == {j \in 1..Len(ops) :
                  /\ ops[j].op = "readFileUtf8" /\ hasFile
                  /\ ops[j].arg = merged.promptTemplateFile}
      usableFile == \E j \in reads : ops[j].r.t = "string" /\ trim(ops[j].r.s) # <<>>
      fallsBack == /\ name \notin {<<"default">>, <<"minimal">>, <<"ja">>}
                   /\ trim(inline) = <<>>
                   /\ ~usableFile
  IN fallsBack =>
       /\ pc = "render" => templateText = [t |-> "string", s |-> PresetDefault]
       /\ pc \in {"threw", "exited"} =>
            (thrown.t = "Error" => thrown.s # <<"tpl.replace is not a function">>)
       /\ pc \in {"write", "done"} =>
            /\ includes(prompt, <<"Commit message:">>)
            /\ includes(prompt, full)

\* C21 as stated: when the inline template is non-empty after trimming, the
\* template that main renders is the inline template text character for
\* character, leading and trailing whitespace included.
C21_InlineTemplateVerbatim ==
  LET inline == IF "promptTemplate" \in DOMAIN merged
                THEN merged.promptTemplate ELSE <<>>
  IN (pc = "render" /\ trim(inline) # <<>>) =>
       templateText = [t |-> "string", s |-> inline]

\* C21 as amended: when the inline template is non-empty after trimming, the
\* template that main renders is the inline template text with its leading
\* and trailing whitespace removed and everything between kept character for
\* character; neither the template file nor a preset is used.
C21_InlineTemplateTrimmed ==
  LET inline == IF "promptTemplate" \in DOMAIN merged
                THEN merged.promptTemplate ELSE <<>>
      fileReads == {j \in 1..Len(ops) :
                      /\ ops[j].op = "readFileUtf8"
                      /\ "promptTemplateFile" \in DOMAIN merged
                      /\ ops[j].arg = merged.promptTemplateFile}
  IN (pc \in {"render", "write", "done"} /\ trim(inline) # <<>>) =>
       /\ templateText.t = "string"
       /\ \E i \in 1..Len(inline) : \E j \in i..Len(inline) :
            /\ templateText.s = SubSeq(inline, i, j)
            /\ inline[i] \notin WS /\ inline[j] \notin WS
            /\ \A n \in 1..Len(inline) : (n < i \/ n > j) => inline[n] \in WS
       /\ fileReads = {}

\* an inline template that ends in a blank was given together with a
\* template file, and the prompt was rendered from the inline text
C21_Witness ==
  /\ pc = "done"
  /\ "promptTemplate" \in DOMAIN merged
  /\ "promptTemplateFile" \in DOMAIN merged
  /\ merged.promptTemplate # trim(merged.promptTemplate)
  /\ templateText.t = "string"
  /\ templateText.s = trim(merged.promptTemplate)

\* C27: within one collectDiff run the exclude-file is read at most once and
\* the untracked-listing command carries the same pathspec as the two diff
\* commands, also when the exclude-file changes during the run.
C27_PathspecBuiltOnce ==
  LET reads == {j \in 1..Len(ops) : ops[j].op = "readFileUtf8"}
      cmds == {j \in 1..Len(ops) :
                 /\ ops[j].op = "exec" /\ Len(ops[j].arg) > 1
                 /\ ops[j].arg[1] \in {"git diff -- ", "git diff --cached -- ",
                                       "git ls-files --others --exclude-standard -- "}}
  IN /\ run = "collectDiff" => Cardinality(reads) <= 1
     /\ \A i \in cmds : \A j \in cmds : Tail(ops[i].arg) = Tail(ops[j].arg)
     /\ ps2 # <<>> => ps2 = ps1

\* C28: the unstaged, the staged and the listing query are issued in this
\* order, each only after the previous one succeeded; when one of them fails
\* collectDiff rejects with that very failure, nothing is issued after it (no
\* query, no stat, no read) and no payload is returned.
C28_QueryFailureRejects ==
  LET order == <<"git diff -- ", "git diff --cached -- ",
                 "git ls-files --others --exclude-standard -- ">>
      isQuery(o) == /\ o.op = "exec" /\ Len(o.arg) > 1
                    /\ o.arg[1] \in SeqToSet(order)
      queries == SelectSeq(ops, isQuery)
  IN /\ Len(queries) <= 3
     /\ \A n \in 1..Len(queries) :
          /\ queries[n].arg[1] = order[n]
          /\ n < Len(queries) => queries[n].r.ok
     /\ \A j \in 1..Len(ops) :
          (isQuery(ops[j]) /\ ~ops[j].r.ok) =>
            /\ j = Len(ops)
            /\ pc = "cdRejected"
            /\ thrown = ops[j].r.err
     /\ \A j \in 1..Len(ops) :
          ops[j].op \in {"stat", "readFile"} =>
            Len(queries) = 3 /\ queries[3].r.ok

\* the unstaged query gave a diff, the staged query failed with a string,
\* and collectDiff rejected with that string and issued nothing more
C28_Witness ==
  /\ pc = "cdRejected"
  /\ thrown = ThrownString(<<"STRINGY_FAIL">>)
  /\ unstaged # <<>>
  /\ ops[Len(ops)].arg[1] = "git diff --cached -- "
  /\ ops[Len(ops) - 1].arg[1] = "git diff -- "

\* C29: the operations of collectDiff on the listed files happen one at a
\* time and in listing order: the k-th stat is the stat of the k-th listed
\* file, a read is issued only right after the successful stat of the same
\* file, every operation on a file is over (answered, or failed and recorded
\* under the file's label) before the stat of the next file, and nothing
\* else happens between them.
C29_OneFileAtATime ==
  LET fileOps == {j \in 1..Len(ops) : ops[j].op \in {"stat", "readFile"}}
      stats == SelectSeq(ops, LAMBDA o : o.op = "stat")
      first == CHOOSE j \in fileOps : \A n \in fileOps : j <= n
      labels == {i \in 1..Len(full) : full[i] = "File: "}
      inLoop == pc \in {"cdStat", "cdRead"}
  IN /\ Len(stats) <= Len(files)
     /\ \A k \in 1..Len(stats) : stats[k].arg = files[k]
     /\ \A j \in fileOps :
          /\ \A n \in j..Len(ops) : n \in fileOps
          /\ ops[j].op = "readFile" =>
               /\ j - 1 \in fileOps /\ ops[j - 1].op = "stat"
               /\ ops[j - 1].arg = ops[j].arg /\ ops[j - 1].r.ok
          /\ (ops[j].op = "stat" /\ j > first /\ ops[j - 1].op = "stat") =>
               \/ ~ops[j - 1].r.ok
               \/ jsGreater(Num(ops[j - 1].r.out), merged.maxNewFileSizeBytes)
     /\ pc = "cdStat" => Len(stats) = idx - 1 /\ Cardinality(labels) = idx - 1
     /\ pc = "cdRead" =>
          /\ Len(stats) = idx /\ Cardinality(labels) = idx - 1
          /\ ops[Len(ops)].op = "stat" /\ ops[Len(ops)].arg = files[idx]
     /\ (pc = "cdReturned" /\ merged.includeUntracked) =>
          Len(stats) = Len(files) /\ Cardinality(labels) = Len(files)

\* two files were listed; the read of the first failed and was recorded,
\* then the second was stat'ed and read
C29_Witness ==
  /\ pc = "cdReturned" /\ Len(files) = 2 /\ Len(ops) >= 4
  /\ LET n == Len(ops)
     IN /\ ops[n - 3].op = "stat" /\ ops[n - 3].arg = files[1]
        /\ ops[n - 2].op = "readFile" /\ ops[n - 2].arg = files[1]
        /\ ~ops[n - 2].r.ok
        /\ ops[n - 1].op = "stat" /\ ops[n - 1].arg = files[2]
        /\ ops[n].op = "readFile" /\ ops[n].arg = files[2] /\ ops[n].r.ok
  /\ includes(full, <<"<read error: ">>)

\* C19: an exclude-file that is missing or cannot be read contributes no
\* pattern and collectDiff does not fail because of it; and whenever no
\* pattern is left, the unstaged, staged and listing queries run with the
\* pathspec "." alone and every listed path is kept.
C19_UnreadableExcludeFileNoPatterns ==
  LET hasFile == "excludeFile" \in DOMAIN merged /\ merged.excludeFile # <<>>
      own == IF "exclude" \in DOMAIN merged THEN merged.exclude ELSE <<>>
      ownOnly == <<<<".">>>> \o [i \in 1..Len(own) |-> <<":(exclude)">> \o own[i]]
      last == ops[Len(ops)]
      unread == hasFile /\ last.op = "readFileUtf8" /\ last.r.t = "null"
      queries == {"git diff -- ", "git diff --cached -- ",
                  "git ls-files --others --exclude-standard -- "}
      isQuery(j) == /\ ops[j].op = "exec" /\ Len(ops[j].arg) > 1
                    /\ ops[j].arg[1] \in queries
      \* the read of the exclude-file that the query at j was built from
      readBefore(j) ==
        CHOOSE i \in 1..(j - 1) :
          /\ ops[i].op = "readFileUtf8"
          /\ \A n \in (i + 1)..(j - 1) : ops[n].op # "readFileUtf8"
      noPattern(j) ==
        own = <<>> /\ (hasFile => ops[readBefore(j)].r.t = "null")
      listed(out) ==
        LET ls == SelectSeq(split(out, "\n"), LAMBDA l : trim(l) # <<>>)
        IN [i \in 1..Len(ls) |-> trim(ls[i])]
  IN /\ (pc = "cdUnstaged" /\ unread) => ps1 = ownOnly /\ thrown.t = "undefined"
     /\ (pc = "cdList" /\ unread) => ps2 = ownOnly /\ thrown.t = "undefined"
     /\ \A j \in 1..Len(ops) :
          (isQuery(j) /\ noPattern(j)) =>
            /\ ops[j].arg = <<ops[j].arg[1], "\"", ".", "\"">>
            /\ (ops[j].arg[1] = "git ls-files --others --exclude-standard -- "
                /\ ops[j].r.ok) => files = listed(ops[j].r.out)

\* only the exclude-file names patterns, it could not be read, both diffs
\* and the listing ran, and the listed path is in the payload
C19_Witness ==
  /\ pc = "cdReturned"
  /\ "excludeFile" \in DOMAIN merged /\ "exclude" \notin DOMAIN merged
  /\ ps1 = <<<<".">>>> /\ ps2 = <<<<".">>>>
  /\ \A j \in 1..Len(ops) : ops[j].op = "readFileUtf8" => ops[j].r.t = "null"
  /\ files = << <<"a.txt">> >>
  /\ includes(full, <<"File: ", "a.txt">>)

(***************************************************************************)
(* Diff collection: untracked files                                        *)
(***************************************************************************)
\* C9: a failure of the stat or of the read of a listed file is caught for
\* that file: "File: <path>" and a read-error marker with the failure's
\* message (String(value) for a value that is not an Error) are appended,
\* the loop goes on with the next file, and collectDiff does not fail.
C9_PerFileFailureCaught ==
  [][(pc \in {"cdStat", "cdRead"} /\ Len(ops') = Len(ops) + 1
      /\ ~ops'[Len(ops')].r.ok) =>
       LET e == ops'[Len(ops')].r.err
           msg == IF e.t = "Error" THEN e.s
                  ELSE IF e.t = "number" THEN <<ToString(e.n)>>
                  ELSE e.s
       IN /\ full' = full \o <<"\n", "File: ">> \o files[idx]
                          \o <<"\n", "<read error: ">> \o msg \o <<">", "\n">>
          /\ pc' # "cdRejected"
          /\ thrown' = thrown
          /\ idx < Len(files) => pc' = "cdStat" /\ idx' = idx + 1
          /\ idx = Len(files) => pc' = "cdReturned"]_vars

\* a stat threw a string, a read threw a number, and collectDiff returned
C9_Witness ==
  /\ pc = "cdReturned"
  /\ Len(files) = 2
  /\ includes(full, <<"<read error: ", "BOOM_STRING_ERROR", ">">>)
  /\ includes(full, <<"<read error: ", "7", ">">>)

\* C10: after a successful stat the too-large marker with the byte count
\* replaces the content if and only if size > maxNewFileSizeBytes, strictly;
\* a file of exactly the limit is read; a too-large file is never read.
C10_StrictSizeLimit ==
  [][/\ (pc = "cdStat" /\ Len(ops') = Len(ops) + 1 /\ ops'[Len(ops')].r.ok) =>
          LET size == ops'[Len(ops')].r.out
              max == merged.maxNewFileSizeBytes
          IN IF max.k = "fin" /\ size > max.v
             THEN /\ full' = full \o <<"\n", "File: ">> \o files[idx]
                                  \o <<"\n", "<skipped: too large (",
                                       ToString(size), " bytes)>", "\n">>
                  /\ pc' # "cdRead"
             ELSE pc' = "cdRead" /\ full' = full /\ idx' = idx
     /\ (Len(ops') = Len(ops) + 1 /\ ops'[Len(ops')].op = "readFile") =>
          /\ pc = "cdRead"
          /\ ops'[Len(ops')].arg = files[idx]
          /\ ops[Len(ops)].op = "stat" /\ ops[Len(ops)].arg = files[idx]
          /\ ops[Len(ops)].r.ok
          /\ ~(merged.maxNewFileSizeBytes.k = "fin"
               /\ ops[Len(ops)].r.out > merged.maxNewFileSizeBytes.v)
          /\ (ops'[Len(ops')].r.ok /\ ~looksBinary(ops'[Len(ops')].r.out)) =>
               includes(full', toStringUtf8(ops'[Len(ops')].r.out))]_vars

\* with a limit of 5 bytes, a file of 5 bytes was read and included and a
\* file of 6 bytes was skipped
C10_Witness ==
  /\ pc = "cdReturned"
  /\ merged.maxNewFileSizeBytes = Num(5)
  /\ \E j \in 1..(Len(ops) - 1) :
       /\ ops[j].op = "stat" /\ ops[j].r.ok /\ ops[j].r.out = 5
       /\ ops[j + 1].op = "readFile" /\ ops[j + 1].r.ok
  /\ includes(full, <<"File: ", "a.txt", "\n", "h", "i", "\n">>)
  /\ includes(full, <<"<skipped: too large (", "6", " bytes)>">>)

\* C11: looksBinary(buf) is true exactly when buf holds a zero byte at some
\* position; a file within the size limit whose read succeeded contributes
\* "File: <path>" and the binary-skip marker, and nothing of its content, if
\* its bytes hold a NUL, and its decoded text otherwise.
C11_BinaryIffZeroByte ==
  [][(pc = "cdRead" /\ Len(ops') = Len(ops) + 1 /\ ops'[Len(ops')].r.ok) =>
       LET buf == ops'[Len(ops')].r.out
           hasNul == \E i \in DOMAIN buf : buf[i] = 0
           label == <<"\n", "File: ">> \o files[idx] \o <<"\n">>
       IN /\ looksBinary(buf) <=> hasNul
          /\ hasNul =>
               full' = full \o label
                         \o <<"<binary content skipped (", ToString(stSize),
                              " bytes)>", "\n">>
          /\ ~hasNul => full' = full \o label \o toStringUtf8(buf) \o <<"\n">>]_vars

\* a file with a NUL in the middle was skipped as binary and a text file was
\* included, in one payload
C11_Witness ==
  /\ pc = "cdReturned"
  /\ \E j \in 1..Len(ops) :
       ops[j].op = "readFile" /\ ops[j].r.ok /\ ops[j].r.out = <<1, 0, 2>>
  /\ includes(full, <<"File: ", "b.bin", "\n", "<binary content skipped (", "5",
                      " bytes)>", "\n">>)
  /\ includes(full, <<"File: ", "a.txt", "\n", "h", "i", "\n">>)
  /\ ~includes(full, <<"\\0">>)

\* C12: the payload collectDiff returns is the unstaged text followed by the
\* staged text (trimmed together), then the untracked-files section; the
\* section starts with its header if and only if the listing has a path, and
\* holds one "File: <path>" entry for each path of the listing, in the order
\* of the listing.
C12_PayloadOrder ==
  pc = "cdReturned" =>
    LET outOf(prefix) ==
          LET js == {j \in 1..Len(ops) :
                       /\ ops[j].op = "exec"
                       /\ ops[j].arg # <<>> /\ ops[j].arg[1] = prefix}
          IN IF js = {} THEN <<>> ELSE ops[CHOOSE j \in js : TRUE].r.out
        diffs == trim(outOf("git diff -- ") \o outOf("git diff --cached -- "))
        lines == split(outOf("git ls-files --others --exclude-standard -- "), "\n")
        nonBlankLines == SelectSeq(lines, LAMBDA l : trim(l) # <<>>)
        listing == [i \in 1..Len(nonBlankLines) |-> trim(nonBlankLines[i])]
        section == SubSeq(full, Len(diffs) + 1, Len(full))
        labelAt == {i \in 1..Len(section) : section[i] = "File: "}
        \* the paths that follow the labels, in the order of the payload
        RECURSIVE labelled(_)
        labelled(i) ==
          IF i > Len(section) THEN <<>>
          ELSE (IF i \in labelAt THEN <<<<section[i + 1]>>>> ELSE <<>>)
               \o labelled(i + 1)
    IN /\ Len(full) >= Len(diffs) /\ SubSeq(full, 1, Len(diffs)) = diffs
       /\ ~includes(diffs, <<"File: ">>)
       /\ IF listing = <<>> THEN section = <<>>
          ELSE /\ SubSeq(section, 1, 4)
                    = <<"\n", "\n", "--- New files (contents) ---", "\n">>
               /\ ~includes(SubSeq(section, 5, Len(section)),
                            <<"--- New files (contents) ---">>)
       /\ labelled(1) = listing
       /\ \A i \in labelAt :
            i > 4 /\ section[i - 1] = "\n" /\ section[i + 2] = "\n"

\* both diffs are non-empty and two different paths are listed, b.bin first
C12_Witness ==
  /\ pc = "cdReturned"
  /\ files = << <<"b.bin">>, <<"a.txt">> >>
  /\ SubSeq(full, 1, 3) = <<"diff --git a/x b/x", "\n", "diff --git a/y b/y">>
  /\ includes(full, <<"--- New files (contents) ---">>)

(***************************************************************************)
(* Functions checked on their own: fn is "pending" until the function is   *)
(* applied to arg, and res is its result.                                  *)
(***************************************************************************)
InitFn(inputs) ==
  /\ pc = "fn" /\ run = "fn" /\ merged = EmptyObj /\ Blank
  /\ fn = "pending" /\ res = <<>>
  /\ arg \in inputs

\* fn(arg) was called and returned r
Returned(name, r) ==
  /\ fn = "pending"
  /\ fn' = name
  /\ res' = r
  /\ UNCHANGED arg
  /\ UNCHANGED mainVars

\* the sequences of at most n elements of S
SeqsUpTo(S, n) == UNION {[1..k -> S] : k \in 0..n}

(***************************************************************************)
(* SpecMerge: defaults, file config and command line are merged            *)
(***************************************************************************)
ConfigKeys ==
  {"outputPath", "outputFile", "maxConsoleLines", "includeUntracked",
   "maxNewFileSizeBytes", "maxBuffer", "promptTemplate", "promptTemplateFile",
   "templatePreset", "exclude", "excludeFile"}

MergeInputs ==
  LET ArgCandidates ==
        {<<"--lines=", "3">>, <<"--no-untracked">>, <<"--out=", "OUT.txt">>,
         <<"--out=">>, <<"--out=", " ">>, <<"--max-new-size=", "5">>, <<"--max-buffer=", "abc">>,
         <<"--template=", "INLINE">>, <<"--template-file=", "t.md">>,
         <<"--template-preset=", "minimal">>, <<"--exclude=", "dist">>,
         <<"--exclude-file=", "ex.txt">>}
      \* a well-typed value of each config field
      GoodValue(key) ==
        CASE key = "outputPath" -> JStr(<<"out", "/", "p.txt">>)
          [] key = "outputFile" -> JStr(<<"C:", "/", "p.md">>)
          [] key = "maxConsoleLines" -> JNum(Num(20))
          [] key = "includeUntracked" -> JBool(TRUE)
          [] key = "maxNewFileSizeBytes" -> JNum(Num(123))
          [] key = "maxBuffer" -> JNum(Num(456))
          [] key = "promptTemplate" -> JStr(<<"CFG", " ", "{{", "diff", "}}">>)
          [] key = "promptTemplateFile" -> JStr(<<"tpl.md">>)
          [] key = "templatePreset" -> JStr(<<"ja">>)
          [] key = "exclude" -> JArr(<<JStr(<<"build">>), JStr(<<"*.lock">>)>>)
          [] key = "excludeFile" -> JStr(<<".d2p-excludes">>)
      \* the file configs of the merge: none, one field, or every field
      GoodConfigs ==
        {JObj([k \in T |-> GoodValue(k)]) :
           T \in {{}, ConfigKeys} \cup {{k} : k \in ConfigKeys}}
  IN  [envLines : EnvLines, raw : GoodConfigs,
       argv : {Argv(a) : a \in SeqsUpTo(ArgCandidates, MaxArgs)},
       root : {JNull, JStr(<<"/repo">>)}]

\* the three layers of the input
layersOf(in) ==
  [defaults |-> defaultOptions(in.envLines),
   fileCfg |-> normalizeUserConfig(in.raw,
                 IF in.root.t = "string" THEN in.root.s ELSE Cwd),
   cli |-> parseArgs(in.argv)]

\* mergeOptions(defaults, fileCfg, cli, repoRoot, fallbackDir)
MergeOptionsCall ==
  LET l == layersOf(arg)
  IN Returned("mergeOptions",
              mergeOptions(l.defaults, l.fileCfg, l.cli, arg.root, Cwd))

\* the merge of main(), where repoRoot is the root or the working directory
MainMergeCall ==
  LET l == layersOf(arg)
  IN Returned("mainMerge",
              mainMerge(l.defaults, l.fileCfg, l.cli,
                        IF arg.root.t = "string" THEN arg.root.s ELSE Cwd,
                        DirnameSafe))

SpecMerge == InitFn(MergeInputs) /\ [][MergeOptionsCall \/ MainMergeCall]_vars

\* C2: field by field, the merged value is the value of the command line if
\* it sets the field, else the value of the file config if it sets the field,
\* else the default; before the default output path is applied.
C2_LayeredPerField ==
  fn \in {"mergeOptions", "mainMerge"} =>
    LET l == layersOf(arg)
    IN \A f \in OptionFields :
         LET layer == IF f \in DOMAIN l.cli THEN l.cli
                      ELSE IF f \in DOMAIN l.fileCfg THEN l.fileCfg
                      ELSE l.defaults
         IN IF f \notin DOMAIN layer THEN f \notin DOMAIN res
            ELSE /\ f \in DOMAIN res
                 /\ IF f = "outputPath" /\ trim(layer[f]) = <<>>
                    THEN res[f] = layer[f]
                         \/ res[f] = join(IF arg.root.t = "string"
                                          THEN arg.root.s ELSE Cwd,
                                          DEFAULT_OUTPUT_FILENAME)
                    ELSE res[f] = layer[f]

\* the three layers disagree on a field and the command line wins, while a
\* field only the file sets comes from the file
C2_Witness ==
  /\ fn = "mainMerge"
  /\ LET l == layersOf(arg)
     IN /\ "maxConsoleLines" \in DOMAIN l.cli
        /\ "maxConsoleLines" \in DOMAIN l.fileCfg
        /\ l.cli.maxConsoleLines # l.fileCfg.maxConsoleLines
        /\ l.fileCfg.maxConsoleLines # l.defaults.maxConsoleLines
        /\ res.maxConsoleLines = l.cli.maxConsoleLines
        /\ "templatePreset" \in DOMAIN l.fileCfg
        /\ "templatePreset" \notin DOMAIN l.cli
        /\ res.templatePreset = l.fileCfg.templatePreset

\* C13: after the merge of main and of mergeOptions, outputPath is never
\* empty and never whitespace-only: a merged value that is empty or blank,
\* whichever layer supplied it, is replaced by <base>/generated-prompt.txt,
\* where base is the repository root if it is known and the fallback
\* directory otherwise.
C13_OutputPathNeverBlank ==
  fn \in {"mergeOptions", "mainMerge"} =>
    LET l == layersOf(arg)
        supplied == IF "outputPath" \in DOMAIN l.cli THEN l.cli.outputPath
                    ELSE IF "outputPath" \in DOMAIN l.fileCfg
                    THEN l.fileCfg.outputPath
                    ELSE l.defaults.outputPath
        blank(s) == \A i \in 1..Len(s) : s[i] \in {" ", "\t", "\n", "\r"}
        base == IF arg.root.t = "string" THEN arg.root.s ELSE <<"/cwd">>
    IN /\ ~blank(res.outputPath)
       /\ blank(supplied) =>
            res.outputPath = base \o <<"/", "generated-prompt.txt">>

(***************************************************************************)
(* SpecConfig: loadUserConfig over the four configuration sources          *)
(***************************************************************************)
\* DIFF2PROMPT_CONFIG unset (or empty), or set to the path of a file
ConfigSources ==
  LET \* a config of its own for each source, to tell the sources apart
      SourceConfig(name) ==
        CASE name = "env" -> JObj([maxConsoleLines |-> JNum(Num(1))])
          [] name = "conf" -> JObj([maxConsoleLines |-> JNum(Num(2)),
                                    templatePreset |-> JStr(<<"ja">>)])
          [] name = "rc" -> JObj([maxConsoleLines |-> JNum(Num(3)),
                                  includeUntracked |-> JBool(FALSE)])
          [] name = "pkg" -> JObj([maxConsoleLines |-> JNum(Num(4)),
                                   exclude |-> JArr(<<JStr(<<"dist">>)>>)])
      \* what a config file can hold
      SourceFiles(name) ==
        {FileMissing, [st |-> "unreadable", v |-> JNull], FileInvalid, FileJson(JNull),
         FileJson(JNum(Num(0))), FileJson(JNum(Num(42))),
         FileJson(SourceConfig(name))}
      \* what package.json can hold
      PackageFiles ==
        {FileMissing, FileInvalid, FileJson(JNum(Num(42))),
         FileJson(JObj([name |-> JStr(<<"pkg">>)])),
         FileJson(JObj([name |-> JStr(<<"pkg">>), diff2prompt |-> JNull])),
         FileJson(JObj([name |-> JStr(<<"pkg">>), diff2prompt |-> JNum(Num(42))])),
         FileJson(JObj([name |-> JStr(<<"pkg">>), diff2prompt |-> SourceConfig("pkg")]))}
  IN  {s \in [envSet : BOOLEAN, env : SourceFiles("env"), conf : SourceFiles("conf"),
              rc : SourceFiles("rc"), pkg : PackageFiles] :
         ~s.envSet => s.env = FileMissing}

\* loadUserConfig(baseDir)
LoadUserConfigCall == Returned("loadUserConfig", loadUserConfig(arg, Cwd))

SpecConfig == InitFn(ConfigSources) /\ [][LoadUserConfigCall]_vars

\* C5: loadUserConfig returns the normalization of exactly one source, the
\* first of (DIFF2PROMPT_CONFIG file, diff2prompt.config.json, .diff2promptrc,
\* package.json diff2prompt field) that exists and parses as structured data
\* (a JSON object or array); a source that is missing, unreadable or does not
\* parse so is skipped, and without any such source the result is empty.
C5_FirstStructuredSourceWins ==
  fn = "loadUserConfig" =>
    LET structured(f) == f.st = "json" /\ f.v.t \in {"object", "array"}
        hasField == /\ structured(arg.pkg) /\ arg.pkg.v.t = "object"
                    /\ "diff2prompt" \in DOMAIN arg.pkg.v.fields
        expected ==
          IF arg.envSet /\ structured(arg.env)
          THEN normalizeUserConfig(arg.env.v, Cwd)
          ELSE IF structured(arg.conf) THEN normalizeUserConfig(arg.conf.v, Cwd)
          ELSE IF structured(arg.rc) THEN normalizeUserConfig(arg.rc.v, Cwd)
          ELSE IF hasField
          THEN normalizeUserConfig(arg.pkg.v.fields["diff2prompt"], Cwd)
          ELSE EmptyObj
    IN res = expected

(***************************************************************************)
(* SpecNormalize: normalizeUserConfig over raw values of every type        *)
(***************************************************************************)
\* a non-object, or an object of at most MaxCfgFields recognized fields
InitNormalize ==
  LET \* the subsets of at most n elements of S
      SubsetsUpTo(S, n) == {T \in SUBSET S : Cardinality(T) <= n}
      \* raw values that are not objects with fields
      NonObjects ==
        {JNull, JBool(TRUE), JNum(Num(7)), JStr(<<"v.txt">>),
         JArr(<<JStr(<<"dist">>)>>)}
      \* raw values of every runtime type
      RawValues ==
        {JNull, JBool(TRUE), JNum(Num(7)), JNum(Infinity), JStr(<<"v.txt">>),
         JStr(<<" ">>), JArr(<<JStr(<<"dist">>)>>),
         JArr(<<JStr(<<"dist">>), JNum(Num(1))>>), JObj(EmptyObj)}
      \* paths, for the output path and its alias: POSIX, Windows drive and
      \* UNC absolute, and relative
      PathValues ==
        {JStr(<<"/", "abs.txt">>), JStr(<<"C:", "\\", "w.txt">>),
         JStr(<<"\\", "\\", "srv", "u.txt">>), JStr(<<"rel", "/", "r.txt">>)}
      ValuesOf(k) ==
        IF k \in {"outputPath", "outputFile"}
        THEN RawValues \cup PathValues ELSE RawValues
  IN  \/ InitFn(NonObjects)
      \/ \E T \in SubsetsUpTo(ConfigKeys, MaxCfgFields) :
           \E o \in [T -> RawValues \cup PathValues] :
             /\ \A k \in T : o[k] \in ValuesOf(k)
             /\ InitFn({JObj(o)})

\* normalizeUserConfig(cfgRaw, baseDir)
NormalizeCall == Returned("normalizeUserConfig", normalizeUserConfig(arg, Cwd))

SpecNormalize == InitNormalize /\ [][NormalizeCall]_vars

\* C6 as stated: every recognized field whose value has not the expected
\* runtime type is absent from the result of normalizeUserConfig, and a raw
\* value that is not an object yields the empty configuration.
C6_MistypedFieldAbsent ==
  fn = "normalizeUserConfig" =>
    LET wellTyped(key, v) ==
          CASE key \in {"maxConsoleLines", "maxNewFileSizeBytes", "maxBuffer"} ->
                 v.t = "number" /\ v.x.k = "fin"
            [] key = "includeUntracked" -> v.t = "boolean"
            [] key = "exclude" ->
                 /\ v.t = "array"
                 /\ \A i \in 1..Len(v.items) :
                      v.items[i].t = "string" /\ v.items[i].s # <<>>
            [] OTHER -> v.t = "string"
        mistyped(key) ==
          /\ arg.t = "object" /\ key \in DOMAIN arg.fields
          /\ ~wellTyped(key, arg.fields[key])
    IN /\ arg.t # "object" => res = EmptyObj
       /\ \A key \in ConfigKeys : mistyped(key) => key \notin DOMAIN res

\* C6: a recognized field whose value has not the expected runtime type
\* (string; finite number; boolean; array of non-empty strings) is absent from
\* the result of normalizeUserConfig, except that outputPath is then still
\* supplied by a string outputFile (its alias), resolved against the base
\* directory; a raw value that is not an object yields the empty result.
C6_MistypedFieldSuppliesNothing ==
  fn = "normalizeUserConfig" =>
    LET wellTyped(key, v) ==
          CASE key \in {"maxConsoleLines", "maxNewFileSizeBytes", "maxBuffer"} ->
                 v.t = "number" /\ v.x.k = "fin"
            [] key = "includeUntracked" -> v.t = "boolean"
            [] key = "exclude" ->
                 /\ v.t = "array"
                 /\ \A i \in 1..Len(v.items) :
                      v.items[i].t = "string" /\ v.items[i].s # <<>>
            [] OTHER -> v.t = "string"
        mistyped(key) ==
          /\ arg.t = "object" /\ key \in DOMAIN arg.fields
          /\ ~wellTyped(key, arg.fields[key])
    IN /\ arg.t # "object" => res = EmptyObj
       /\ \A key \in ConfigKeys \ {"outputPath"} :
            mistyped(key) => key \notin DOMAIN res
       /\ mistyped("outputPath") =>
            \/ "outputPath" \notin DOMAIN res
            \/ /\ "outputFile" \in DOMAIN arg.fields
               /\ arg.fields["outputFile"].t = "string"
               /\ res.outputPath
                    = (IF arg.fields["outputFile"].s[1] \in {"/", "\\", "C:"}
                       THEN arg.fields["outputFile"].s
                       ELSE Cwd \o <<"/">> \o arg.fields["outputFile"].s)

\* a field set to a number that is not finite is dropped next to a well-typed
\* field that is kept
C6_Witness ==
  /\ fn = "normalizeUserConfig"
  /\ arg.t = "object"
  /\ "maxBuffer" \in DOMAIN arg.fields
  /\ arg.fields["maxBuffer"] = JNum(Infinity)
  /\ "maxBuffer" \notin DOMAIN res
  /\ "exclude" \in DOMAIN res

\* C20: when outputPath and outputFile are both non-blank strings, the
\* result's outputPath comes from outputPath and outputFile is ignored;
\* outputFile is used only when outputPath is absent, not a string or blank.
\* A relative value is joined to the base directory and an absolute value
\* (POSIX, Windows drive or UNC) is kept as it is.
C20_OutputPathOverAlias ==
  (fn = "normalizeUserConfig" /\ arg.t = "object") =>
    LET given(k) ==
          /\ k \in DOMAIN arg.fields /\ arg.fields[k].t = "string"
          /\ \E i \in 1..Len(arg.fields[k].s) :
               arg.fields[k].s[i] \notin {" ", "\t", "\n", "\r"}
        absolute(p) ==
          \/ p[1] = "/"
          \/ Len(p) >= 2 /\ p[1] = "\\" /\ p[2] = "\\"
          \/ Len(p) >= 2 /\ p[1] = "C:" /\ p[2] \in {"\\", "/"}
        placed(p) == IF absolute(p) THEN p ELSE <<"/cwd", "/">> \o p
        source == IF given("outputPath") THEN "outputPath"
                  ELSE IF given("outputFile") THEN "outputFile"
                  ELSE "none"
    IN IF source = "none" THEN "outputPath" \notin DOMAIN res
       ELSE /\ "outputPath" \in DOMAIN res
            /\ res.outputPath = placed(arg.fields[source].s)

\* both are given: the relative outputPath is joined to the base directory
\* and the absolute outputFile is ignored
C20_Witness ==
  /\ fn = "normalizeUserConfig"
  /\ arg.t = "object"
  /\ DOMAIN arg.fields = {"outputPath", "outputFile"}
  /\ arg.fields["outputPath"].t = "string"
  /\ arg.fields["outputPath"].s = <<"rel", "/", "r.txt">>
  /\ arg.fields["outputFile"].t = "string"
  /\ arg.fields["outputFile"].s = <<"C:", "\\", "w.txt">>
  /\ res = [outputPath |-> <<"/cwd", "/", "rel", "/", "r.txt">>]

(***************************************************************************)
(* SpecFilter: the reference path filter of the flow test                  *)
(***************************************************************************)
\* one or two listed paths, and at most MaxPatterns patterns
FilterInputs ==
  LET PathChars == {"a", "b", "/"}
      \* relative paths of files, one atom per character
      FilterPaths ==
        {p \in UNION {[1..n -> PathChars] : n \in 1..MaxPathLen} :
           /\ p[1] # "/" /\ p[Len(p)] # "/"
           /\ \A i \in 1..(Len(p) - 1) : ~(p[i] = "/" /\ p[i + 1] = "/")}
      \* plain-prefix and directory-prefix patterns
      FilterPatterns ==
        {<<"a">>, <<"a", "/">>, <<"a", "b">>, <<"a", "\\", "b">>, <<"b", "/", "a">>}
  IN  [list : {<<p>> : p \in FilterPaths} \cup (FilterPaths \X FilterPaths),
       excludes : SeqsUpTo(FilterPatterns, MaxPatterns)]

\* p.replace(/\\/g, "/")
norm(p) == toGitSlash(p)

\* the glob against the whole string: ** is .*, * is [^/]*, ? is .
RECURSIVE globMatch(_, _)
globMatch(g, s) ==
  IF g = <<>> THEN s = <<>>
  ELSE IF Len(g) >= 2 /\ g[1] = "*" /\ g[2] = "*"
  THEN \E k \in 0..Len(s) :
         globMatch(SubSeq(g, 3, Len(g)), SubSeq(s, k + 1, Len(s)))
  ELSE IF g[1] = "*"
  THEN \E k \in 0..Len(s) :
         /\ \A i \in 1..k : s[i] # "/"
         /\ globMatch(Tail(g), SubSeq(s, k + 1, Len(s)))
  ELSE IF g[1] = "?"
  THEN s # <<>> /\ s[1] # "\n" /\ globMatch(Tail(g), Tail(s))
  ELSE s # <<>> /\ s[1] = g[1] /\ globMatch(Tail(g), Tail(s))

RECURSIVE filterPaths(_, _)
filterPaths(ps, pats) ==
  LET \* r.p.replace(/\/$/, "")
      stripSlash(p) == IF endsWith(p, <<"/">>) THEN SubSeq(p, 1, Len(p) - 1) ELSE p
      \* the pattern is a glob: no trailing slash, and * or ? in it
      isGlob(p) == ~endsWith(p, <<"/">>) /\ \E i \in 1..Len(p) : p[i] \in {"*", "?"}
      \* one pattern excludes the path
      excludedBy(np, p) ==
        IF isGlob(p) THEN globMatch(p, np)
        ELSE \/ startsWith(np, p)
             \/ np = stripSlash(p)
             \/ startsWith(np, stripSlash(p) \o <<"/">>)
      \* the callback of .filter: no pattern excludes the path
      keepPath(path, qs) ==
        \A i \in 1..Len(qs) : ~excludedBy(norm(path), qs[i])
  IN  IF ps = <<>> THEN <<>>
      ELSE (IF keepPath(Head(ps), pats) THEN <<Head(ps)>> ELSE <<>>)
           \o filterPaths(Tail(ps), pats)

\* ss.join("\n")
RECURSIVE joinLines(_)
joinLines(ss) ==
  IF ss = <<>> THEN <<>>
  ELSE IF Len(ss) = 1 THEN ss[1]
  ELSE ss[1] \o <<"\n">> \o joinLines(Tail(ss))

filterListByExcludes(list, excludes) ==
  IF list = <<>> \/ excludes = <<>> THEN list
  ELSE joinLines(filterPaths(filterBoolean(mapTrim(split(list, "\n"))),
                             [i \in 1..Len(excludes) |-> norm(excludes[i])]))

\* filterListByExcludes(list, excludes) on the listing of arg.list
FilterCall ==
  Returned("filterListByExcludes",
           filterListByExcludes(joinLines(arg.list), arg.excludes))

SpecFilter == InitFn(FilterInputs) /\ [][FilterCall]_vars

\* C8: a path is removed by filterListByExcludes exactly when, for some
\* pattern p (backslashes as slashes, trailing slash ignored), it equals p or
\* begins with p followed by "/"; a path that shares only leading characters
\* with p is kept.
C8_PrefixAtSeparatorOnly ==
  fn = "filterListByExcludes" =>
    LET slashed(p) == [i \in 1..Len(p) |-> IF p[i] = "\\" THEN "/" ELSE p[i]]
        bare(p) == IF p[Len(p)] = "/" THEN SubSeq(p, 1, Len(p) - 1) ELSE p
        hit(path, p) ==
          \/ path = bare(slashed(p))
          \/ /\ Len(path) > Len(bare(slashed(p)))
             /\ SubSeq(path, 1, Len(bare(slashed(p))) + 1)
                  = bare(slashed(p)) \o <<"/">>
        removed(path) == \E i \in 1..Len(arg.excludes) : hit(path, arg.excludes[i])
        kept == SelectSeq(arg.list, LAMBDA path : ~removed(path))
    IN split(res, "\n") = (IF kept = <<>> THEN << <<>> >> ELSE kept)

(***************************************************************************)
(* SpecRender: renderTemplate over templates and bindings                  *)
(***************************************************************************)
\* a template of at most MaxPieces pieces: text, placeholders with and
\* without blanks around the key, and lone or malformed braces
InitRender ==
  LET Pieces ==
        {<<"T">>, <<" ">>, <<"{{">>, <<"}}">>, <<"{{", "}}">>,
         <<"{{", "diff", "}}">>, <<"{{", " ", "constructor", " ", "}}">>,
         <<"{{", "\n", "repoRoot", "}}">>, <<"{{", "a-b", "}}">>}
      \* the bindings: none, plain text, a value that holds a placeholder, and
      \* a key named like an inherited member
      RenderData ==
        {EmptyObj,
         [diff |-> <<"D", "\n", "E">>],
         [diff |-> <<"{{", "repoRoot", "}}">>, repoRoot |-> <<"/repo">>],
         [diff |-> <<"D">>, constructor |-> <<"OWN">>]}
  IN  \E ps \in SeqsUpTo(Pieces, MaxPieces) :
        InitFn({[tpl |-> joinAll(ps), data |-> d] : d \in RenderData})

\* renderTemplate(tpl, data)
RenderTemplateCall ==
  Returned("renderTemplate", renderTemplate(arg.tpl, arg.data))

SpecRender == InitRender /\ [][RenderTemplateCall]_vars

\* C15: renderTemplate replaces every placeholder "{{ key }}" (key of letters,
\* digits or underscores, any blanks between the braces and the key) by the
\* value bound to key if key is a key of the bindings, and by the empty string
\* otherwise, also for a key such as constructor; the text outside the
\* placeholders is unchanged.
C15_PlaceholdersReplaced ==
  fn = "renderTemplate" =>
    LET t == arg.tpl
        blank(a) == a \in {" ", "\n", "\t", "\r"}
        word(a) == a \in {"diff", "now", "repoRoot", "constructor", "x"}
        \* a placeholder spans i..k and its key is at j
        isPh(i, j, k) ==
          /\ i < j /\ j < k /\ k <= Len(t)
          /\ t[i] = "{{" /\ t[k] = "}}" /\ word(t[j])
          /\ \A n \in (i + 1)..(k - 1) : n # j => blank(t[n])
        value(a) == IF a \in DOMAIN arg.data THEN arg.data[a] ELSE <<>>
        RECURSIVE expected(_)
        expected(i) ==
          IF i > Len(t) THEN <<>>
          ELSE IF \E j, k \in i..Len(t) : isPh(i, j, k)
          THEN LET jk == CHOOSE jk \in (i..Len(t)) \X (i..Len(t)) :
                           isPh(i, jk[1], jk[2])
               IN value(t[jk[1]]) \o expected(jk[2] + 1)
          ELSE <<t[i]>> \o expected(i + 1)
    IN res = expected(1)

\* a bound key and the unbound key constructor in one template, with text
\* between them
C15_Witness ==
  /\ fn = "renderTemplate"
  /\ arg.tpl = <<"{{", "diff", "}}", "T", "{{", " ", "constructor", " ", "}}">>
  /\ arg.data = [diff |-> <<"D", "\n", "E">>]
  /\ res = <<"D", "\n", "E", "T">>

\* C16: renderTemplate substitutes in one pass: the result is the template
\* with each placeholder replaced by its value taken as opaque text, so a
\* placeholder inside a substituted value stays as it is and the result does
\* not depend on an order of the bindings.
C16_SinglePass ==
  fn = "renderTemplate" =>
    LET mark(k) == "@" \o k
        opaque == [k \in DOMAIN arg.data |-> <<mark(k)>>]
        rendered == renderTemplate(arg.tpl, opaque)
        keyOf(a) == CHOOSE k \in DOMAIN arg.data : a = mark(k)
        expand(a) == IF \E k \in DOMAIN arg.data : a = mark(k)
                     THEN arg.data[keyOf(a)] ELSE <<a>>
        RECURSIVE expandAll(_)
        expandAll(s) ==
          IF s = <<>> THEN <<>> ELSE expand(Head(s)) \o expandAll(Tail(s))
    IN res = expandAll(rendered)

\* the value of diff holds the placeholder of repoRoot, the template uses
\* both keys, and the placeholder inside the value is in the result
C16_Witness ==
  /\ fn = "renderTemplate"
  /\ arg.tpl = <<"{{", "\n", "repoRoot", "}}", "T", "{{", "diff", "}}">>
  /\ arg.data = [diff |-> <<"{{", "repoRoot", "}}">>, repoRoot |-> <<"/repo">>]
  /\ res = <<"/repo", "T", "{{", "repoRoot", "}}">>

(***************************************************************************)
(* SpecDefault: the built-in default preset rendered with a diff text      *)
(***************************************************************************)
\* a diff text of at most MaxDiffLen atoms, with placeholder-like and $ atoms
InitDefault ==
  LET DiffAtoms == {"{{", "}}", "diff", "now", "$&", "\n"}
  IN  InitFn(SeqsUpTo(DiffAtoms, MaxDiffLen))

\* renderTemplate(TEMPLATE_PRESETS.default, { diff, now, repoRoot })
RenderDefaultCall ==
  Returned("renderDefault",
           renderTemplate(TEMPLATE_PRESETS(<<"default">>).s,
                          [diff |-> arg, now |-> <<"2026-01-01T00:00:00.000Z">>,
                           repoRoot |-> <<"/repo">>]))

SpecDefault == InitDefault /\ [][RenderDefaultCall]_vars

\* C17: the built-in default template rendered with diff = d contains d
\* verbatim, as one contiguous piece, whatever d holds, and contains the
\* labels "Commit message:", "PR title:" and "Branch:".
C17_DefaultContainsDiffAndLabels ==
  fn = "renderDefault" =>
    /\ \E i \in 1..(Len(res) + 1) :
         /\ i + Len(arg) - 1 <= Len(res)
         /\ \A n \in 1..Len(arg) : res[i + n - 1] = arg[n]
    /\ \A label \in {"Commit message:", "PR title:", "Branch:"} :
         \E i \in 1..Len(res) : res[i] = label

\* a diff that holds a placeholder of a bound key and a $ sequence
C17_Witness ==
  /\ fn = "renderDefault"
  /\ arg = <<"{{", "now", "}}">>
  /\ \E i \in 1..Len(res) : SubSeq(res, i, i + 2) = <<"{{", "now", "}}">>

(***************************************************************************)
(* SpecLines: readLinesIfExists over the texts of an exclude-file          *)
(***************************************************************************)
\* the file cannot be read, or holds at most MaxLines lines, each ended by a
\* line feed, by carriage return and line feed, or by nothing
InitLines ==
  LET LineTexts ==
        {<<>>, <<" ">>, <<"a">>, <<"a", " ", "#", "b">>, <<"a", "#", "b">>,
         <<"#", "b">>, <<" ", "#", "b">>}
      LineEnds == {<<>>, <<"\n">>, <<"\r", "\n">>}
      Lines == {l \o e : l \in LineTexts, e \in LineEnds}
  IN  \/ InitFn({JNull})
      \/ \E ls \in SeqsUpTo(Lines, MaxLines) : InitFn({JStr(joinAll(ls))})

\* readLinesIfExists(path), where arg is what the read of the file gave
ReadLinesCall == Returned("readLinesIfExists", readLinesIfExists(arg))

SpecLines == InitLines /\ [][ReadLinesCall]_vars

\* C18: of each line of the exclude-file the trailing comment (blanks followed
\* by "#", up to the end of the line) is removed and the rest is trimmed; an
\* empty line gives no pattern, and a line whose first non-blank character is
\* "#", at column 1 or after leading blanks, gives no pattern.
C18_CommentLinesGiveNoPattern ==
  fn = "readLinesIfExists" =>
    LET blank(a) == a \in {" ", "\t", "\r", "\n"}
        lines == IF arg.t = "string" THEN split(arg.s, "\n") ELSE <<>>
        \* where the comment of the line starts: a "#" after a blank, or a "#"
        \* that is the first non-blank character
        starts(l) ==
          {i \in 1..Len(l) :
             /\ l[i] = "#"
             /\ \/ i > 1 /\ blank(l[i - 1])
                \/ \A n \in 1..(i - 1) : blank(l[n])}
        cut(l) ==
          IF starts(l) = {} THEN l
          ELSE SubSeq(l, 1, (CHOOSE i \in starts(l) :
                               \A n \in starts(l) : i <= n) - 1)
        stripped == [i \in 1..Len(lines) |-> trim(cut(lines[i]))]
    IN res = SelectSeq(stripped, LAMBDA l : l # <<>>)

(***************************************************************************)
(* SpecQuote: the three command lines composed from a list of exclude      *)
(* patterns, and the tokens that parseExcludesFromCmd reads back from them *)
(***************************************************************************)
\* the pathspec tokens of a command line: the text after " -- " is split at
\* whitespace outside double quotes, every double quote toggles the quoted
\* state and is dropped, and of the tokens that start with ":(exclude)" the
\* rest is returned
parseExcludesFromCmd(cmd) ==
  LET \* const tail = cmd.slice(idx + 4).trim()
      tail == trim(Tail(cmd))
      RECURSIVE scan(_, _, _, _)
      scan(i, cur, inQ, tokens) ==
        IF i > Len(tail)
        THEN (IF cur # <<>> THEN Append(tokens, cur) ELSE tokens)
        ELSE IF tail[i] = "\"" THEN scan(i + 1, cur, ~inQ, tokens)
        ELSE IF ~inQ /\ tail[i] \in WS
        THEN scan(i + 1, <<>>, inQ,
                  IF cur # <<>> THEN Append(tokens, cur) ELSE tokens)
        ELSE scan(i + 1, Append(cur, tail[i]), inQ, tokens)
      all == scan(1, <<>>, FALSE, <<>>)
      excludes == SelectSeq(all, LAMBDA t : Head(t) = ":(exclude)")
  IN  [tokens |-> all, excludes |-> [i \in 1..Len(excludes) |-> Tail(excludes[i])]]

\* buildDiffCommands and buildUntrackedCommand for the options
\* {exclude: arg}, without an exclude-file
BuildCommandsCall ==
  LET ps == buildPathspec([exclude |-> arg], JNull)
  IN Returned("buildCommands",
              buildDiffCommands(ps) \o <<buildUntrackedCommand(ps)>>)

\* at most MaxPatterns patterns: plain, with blanks, with a double quote,
\* with a backslash
SpecQuote ==
  /\ InitFn(SeqsUpTo({<<"a">>, <<"b", "/">>, <<"a", " ", "b">>, <<" ", "a">>,
                      <<"a", "\"">>, <<"a", "\"", "b">>, <<"a", "\"", " ", "b">>,
                      <<"\"", "a", " ", "b", "\"">>, <<"a", "\\", "b">>,
                      <<"*", ".", "log">>}, MaxPatterns))
  /\ [][BuildCommandsCall]_vars

ParseArgsCall == Returned("parseArgs", parseArgs(Argv(arg)))

\* at most MaxArgs arguments, each a value-carrying flag with a value that
\* is empty, plain, or holds "=" itself
SpecArgs ==
  /\ \E args \in SeqsUpTo({<<f>> \o v :
                             f \in {"--out=", "--template=", "--template-file=",
                                    "--template-preset=", "--exclude-file=",
                                    "--exclude="},
                             v \in {<<>>, <<"v">>, <<"w">>, <<"a", "=", "b">>,
                                    <<"k", "=">>}}, MaxArgs) :
       InitFn({args})
  /\ [][ParseArgsCall]_vars

\* C23: for each of --out, --template, --template-file, --template-preset
\* and --exclude-file, the option holds the entire text after the first "="
\* of the last argument with that flag, also when that text holds "=" itself
\* (and the option is absent when the flag is not given); the --exclude
\* values accumulate in the order of the arguments.
C23_WholeValueAfterFirstEq ==
  fn = "parseArgs" =>
    LET keyOf == [outputPath |-> "--out=", promptTemplate |-> "--template=",
                  promptTemplateFile |-> "--template-file=",
                  templatePreset |-> "--template-preset=",
                  excludeFile |-> "--exclude-file="]
        at(flag) == {i \in 1..Len(arg) : Head(arg[i]) = flag}
        lastOf(flag) == CHOOSE i \in at(flag) : \A j \in at(flag) : j <= i
        given == SelectSeq(arg, LAMBDA a : Head(a) = "--exclude=" /\ Tail(a) # <<>>)
    IN /\ \A k \in DOMAIN keyOf :
            IF at(keyOf[k]) = {} THEN k \notin DOMAIN res
            ELSE k \in DOMAIN res /\ res[k] = Tail(arg[lastOf(keyOf[k])])
       /\ IF given = <<>> THEN "exclude" \notin DOMAIN res
          ELSE /\ "exclude" \in DOMAIN res
               /\ res.exclude = [i \in 1..Len(given) |-> Tail(given[i])]

(***************************************************************************)
(* SpecRerun: main() run twice over one working copy.  arg.listed tells    *)
(* whether the listing of untracked files shows the destination file once  *)
(* it exists (it lies under the working directory and is not ignored);     *)
(* res keeps the first run.                                                *)
(***************************************************************************)
InitRerun ==
  /\ pc = "start" /\ run = "rerun" /\ merged = EmptyObj /\ Blank
  /\ fn = "first" /\ arg \in {[listed |-> b] : b \in BOOLEAN} /\ res = <<>>

\* the two runs have no configuration file and no MAX_CONSOLE_LINES, and
\* nobody but main changes the working copy or the arguments: a file
\* read twice reads the same, the first run does not see a destination file,
\* and the second run gets the answers of the first, but for the
\* destination file that the first run wrote (its content is not modelled:
\* stat and read of it succeed with the sample answers)
Quiet ==
  LET o == ops'[Len(ops')]
      destName == <<merged'.outputPath[Len(merged'.outputPath)]>>
      ofDest(x) == x.op \in {"stat", "readFile"} /\ x.arg = destName
      isListing(x) ==
        x.op = "exec" /\ x.arg[1] = "git ls-files --others --exclude-standard -- "
      others == SelectSeq(ops', LAMBDA x : ~ofDest(x))
      k == Len(others)
  IN  /\ pc = "loadConfig" =>
           /\ fileCfg' = EmptyObj
           /\ merged'.maxConsoleLines # Number(<<"5">>)
           /\ fn = "second" => <<cli', fileCfg', merged'>> = res.cfg
      /\ ops' # ops =>
           /\ \A i \in 1..Len(ops) :
                (o.op = "readFileUtf8" /\ ops[i].op = o.op /\ ops[i].arg = o.arg)
                  => ops[i].r = o.r
           /\ (fn = "first" /\ isListing(o)) => o.r \in ListResults("main")
           /\ fn = "second" =>
                IF ofDest(o) THEN o.r.ok
                ELSE /\ k <= Len(res.ops)
                     /\ o.r = IF isListing(o) /\ arg.listed /\ res.ops[k].r.ok
                              THEN Ok(res.ops[k].r.out \o destName \o <<"\n">>)
                              ELSE res.ops[k].r

\* main is started again after a successful run; what was written stays
Restart ==
  /\ pc = "done" /\ fn = "first"
  /\ pc' = "start" /\ fn' = "second"
  /\ res' = [ops |-> ops, full |-> full, cfg |-> <<cli, fileCfg, merged>>]
  /\ merged' = EmptyObj /\ repoRoot' = <<>> /\ fileCfg' = EmptyObj
  /\ cli' = EmptyObj /\ cdRoot' = <<>> /\ ps1' = <<>> /\ ps2' = <<>>
  /\ unstaged' = <<>> /\ full' = <<>> /\ files' = <<>> /\ idx' = 0
  /\ stSize' = 0 /\ templateText' = Undefined /\ prompt' = <<>>
  /\ thrown' = Undefined /\ stderr' = <<>> /\ stdout' = <<>>
  /\ exitCode' = 0 - 1 /\ ops' = <<>>
  /\ UNCHANGED <<run, written, arg>>

RerunNext ==
  \/ GetRepoRoot /\ Quiet
  \/ LoadConfig /\ Quiet
  \/ CheckRepo /\ Quiet
  \/ CdRoot /\ Quiet
  \/ CdBuildDiffCommands /\ Quiet
  \/ CdUnstaged /\ Quiet
  \/ CdStaged /\ Quiet
  \/ CdBuildUntrackedCommand /\ Quiet
  \/ CdList /\ Quiet
  \/ CdStat /\ Quiet
  \/ CdRead /\ Quiet
  \/ ResolveTemplate
  \/ ReadTemplate /\ Quiet
  \/ Render
  \/ Write /\ Quiet
  \/ Catch
  \/ Restart

SpecRerun == InitRerun /\ [][RerunNext]_vars

\* C24: two consecutive successful runs of main with the same arguments and
\* configuration, over a working copy that nobody else changes, collect the
\* same diff payload; and all that a run writes is the destination file.
C24_RerunSamePayload ==
  (fn = "second" /\ pc \in {"cdReturned", "render", "write", "done"}) =>
    /\ full = res.full
    /\ \A i \in 1..Len(ops) : ops[i].op = "writeFile" => ops[i].arg = merged.outputPath
    /\ \A i \in 1..Len(written) : written[i].path = merged.outputPath

(***************************************************************************)
(* SpecPreview: the merge of maxConsoleLines from MAX_CONSOLE_LINES, the   *)
(* config field and --lines, and the preview printed with it               *)
(***************************************************************************)
\* the merge of main for arg = [env, cfg, lines, prompt], and
\* printPreview(prompt, merged.maxConsoleLines)
PreviewCall ==
  LET f == normalizeUserConfig(arg.cfg, <<"/repo">>)
      c == parseArgs(Argv(arg.lines))
      merged1 == mainMerge(defaultOptions(arg.env), f, c, <<"/repo">>, DirnameSafe)
  IN Returned("printPreview",
              [maxConsoleLines |-> merged1.maxConsoleLines,
               out |-> printPreview(arg.prompt, merged1.maxConsoleLines)])

\* MAX_CONSOLE_LINES unset or set, the config field absent or a number or
\* not a number, --lines absent or given, and a prompt of one to MaxLines + 2
\* lines
SpecPreview ==
  /\ \E e \in {Undefined, JStr(<<>>), JStr(<<"0">>), JStr(<<"3">>), JStr(<<"-1">>),
               JStr(<<"abc">>)},
        c \in {JObj(EmptyObj), JObj([maxConsoleLines |-> JNum(Num(0))]),
               JObj([maxConsoleLines |-> JNum(Num(3))]),
               JObj([maxConsoleLines |-> JNum(Num(0 - 1))]),
               JObj([maxConsoleLines |-> JNum(NaN)]),
               JObj([maxConsoleLines |-> JStr(<<"3">>)])},
        l \in {<<>>} \cup {<< <<"--lines=">> \o v >> :
                 v \in {<<>>, <<"0">>, <<"3">>, <<"-1">>, <<"abc">>, <<"Infinity">>}},
        n \in 1..(MaxLines + 2) :
       InitFn({[env |-> e, cfg |-> c, lines |-> l,
                prompt |-> joinLines([i \in 1..n |-> <<"L">>])]})
  /\ [][PreviewCall]_vars

\* C25: after the merge maxConsoleLines is an integer >= 0, whatever --lines,
\* the config field and MAX_CONSOLE_LINES are; so the preview is the header,
\* at most maxConsoleLines lines of the prompt, and the truncation line
\* exactly when the prompt has more lines than that.
C25_PreviewCountIsNatural ==
  fn = "printPreview" =>
    LET n == res.maxConsoleLines
        lines == split(arg.prompt, "\n")
        shown == SelectSeq(res.out, LAMBDA l : l = <<"L">>)
    IN /\ n.k = "fin" /\ n.v >= 0
       /\ Len(shown) <= n.v
       /\ (TRUNCATED_LINE \in SeqToSet(res.out)) <=> (Len(lines) > n.v)

(***************************************************************************)
(* SpecPr: the PR-template text and its rendering.  arg = [opt, readable,  *)
(* tpl, discoverAfterMiss]: the options, the set of readable files, the    *)
(* template, and what happens when the given PR-template file cannot be    *)
(* read (empty text, or discovery)                                         *)
(***************************************************************************)
\* the conventional locations of a pull-request template, under the root
PR_TEMPLATE_CANDIDATES ==
  << <<".github", "/", "pull_request_template.md">>,
     <<"docs", "/", "pull_request_template.md">>,
     <<"pull_request_template.md">> >>

\* the text bound to prTemplate: empty when embedding is disabled, else the
\* given file (relative to the root unless absolute), else the first
\* readable conventional location, else empty; read(path) is the text of the
\* file or null
loadPrTemplateText(root, opt, read(_), discoverAfterMiss) ==
  LET enabled == "includePrTemplate" \notin DOMAIN opt \/ opt.includePrTemplate
      given == "prTemplateFile" \in DOMAIN opt /\ opt.prTemplateFile # <<>>
      abs == IF isAbsolutePathLike(opt.prTemplateFile) THEN opt.prTemplateFile
             ELSE join(root, opt.prTemplateFile)
      found == SelectSeq(PR_TEMPLATE_CANDIDATES,
                         LAMBDA c : read(join(root, c)).t = "string")
      discovered == IF found = <<>> THEN <<>> ELSE read(join(root, found[1])).s
  IN  IF ~enabled THEN <<>>
      ELSE IF given
      THEN IF read(abs).t = "string" THEN read(abs).s
           ELSE IF discoverAfterMiss THEN discovered ELSE <<>>
      ELSE discovered

\* loadPrTemplateText(repoRoot, opt) and the rendering of arg.tpl with the
\* bindings of main and prTemplate
PrTemplateCall ==
  LET read(path) == IF path \in arg.readable THEN JStr(<<"PR of ">> \o path \o
                                                       <<"{{", "now", "}}">>)
                    ELSE JNull
      text == loadPrTemplateText(<<"/repo">>, arg.opt, read, arg.discoverAfterMiss)
  IN Returned("loadPrTemplateText",
              [prTemplate |-> text,
               prompt |-> renderTemplate(arg.tpl,
                            [diff |-> <<"D">>, now |-> <<"NOW">>,
                             repoRoot |-> <<"/repo">>, prTemplate |-> text])])

SpecPr ==
  /\ \E include \in {EmptyObj, [includePrTemplate |-> TRUE],
                     [includePrTemplate |-> FALSE]},
        file \in {EmptyObj, [prTemplateFile |-> <<"PR.md">>],
                  [prTemplateFile |-> <<"/", "abs", "/", "PR.md">>]},
        fsys \in SUBSET ({join(<<"/repo">>, PR_TEMPLATE_CANDIDATES[i]) : i \in 1..3}
                          \cup {<<"PR.md">>, join(<<"/repo">>, <<"PR.md">>),
                                <<"/", "abs", "/", "PR.md">>}),
        t \in {<<"HEAD", "\n", "{{", "prTemplate", "}}", "\n", "{{", "diff", "}}">>,
               TEMPLATE_PRESETS(<<"minimal">>).s},
        d \in BOOLEAN :
       InitFn({[opt |-> spread(include, file), readable |-> fsys, tpl |-> t,
                discoverAfterMiss |-> d]})
  /\ [][PrTemplateCall]_vars

RepoRootCall ==
  Returned("getRepoRootSafe",
           [root |-> getRepoRootSafe(arg), used |-> rootOrCwd(getRepoRootSafe(arg))])

\* the command fails, or resolves with a string, with an array whose first
\* element is a string or not, with an object whose stdout is a string or
\* not, or with something else; the texts have at most MaxPathLen atoms
SpecRoot ==
  /\ \E sh \in {"reject", "string", "array", "object", "other"} :
     \E o \in {JStr(t) : t \in SeqsUpTo({"/repo", " ", "\n"}, MaxPathLen)}
              \cup {JNum(Num(1)), Undefined} :
       /\ sh = "string" => o.t = "string"
       /\ sh = "reject" => o = Undefined
       /\ InitFn({[shape |-> sh, out |-> o, ok |-> sh # "reject"]})
  /\ [][RepoRootCall]_vars

\* C30: getRepoRootSafe always returns, a string or null: the trimmed
\* standard output when the command succeeded with a string, a
\* [stdout, stderr] pair or a {stdout, stderr} object whose stdout is a
\* string that is not blank, and null in every other case; with null, main
\* and collectDiff go on with the working directory as the root.
C30_RootOrNull ==
  fn = "getRepoRootSafe" =>
    LET blank(a) == a \in {" ", "\n", "\t", "\r"}
        text == arg.out.s
        inner == {i \in 1..Len(text) : ~blank(text[i])}
        lo == CHOOSE i \in inner : \A j \in inner : i <= j
        hi == CHOOSE i \in inner : \A j \in inner : j <= i
        carries == /\ arg.shape \in {"string", "array", "object"}
                   /\ arg.out.t = "string" /\ inner # {}
    IN /\ res.root.t \in {"string", "null"}
       /\ IF carries
          THEN res.root = [t |-> "string", s |-> SubSeq(text, lo, hi)]
               /\ res.used = SubSeq(text, lo, hi)
          ELSE res.root = [t |-> "null"] /\ res.used = <<"/cwd">>

\* the command resolved with a pair whose first element is the root followed
\* by a line feed
C30_Witness ==
  /\ fn = "getRepoRootSafe"
  /\ arg = [shape |-> "array", out |-> [t |-> "string", s |-> <<"/repo", "\n">>],
            ok |-> TRUE]
  /\ res = [root |-> [t |-> "string", s |-> <<"/repo">>], used |-> <<"/repo">>]

====
